---- MODULE Spec2Model ----
(***************************************************************************)
(* The analyzer runtime of conversadocs/code-scan-docs: BaseAnalyzer.run,  *)
(* its three handlers, the cache filename and the cache write, as a state  *)
(* machine over invocations that share one cache directory.                *)
(*                                                                         *)
(* Text is a sequence of one-character strings.  A JSON document on stdin  *)
(* is a sequence of tokens (records), parsed by json_loads below.          *)
(***************************************************************************)
EXTENDS Integers, Sequences, FiniteSets, TLC

VARIABLES
  stdin,          \* [Procs -> [fails, lines]]  the input stream of each invocation
  impl,           \* "sdk" or "shared": which BaseAnalyzer module the plugin imports
  self_name,      \* BaseAnalyzer.name of the plugin the invocations run
  pc,             \* [Procs -> label] where run() is
  linePos,        \* [Procs -> Nat]   lines the fallback iterator has consumed
  input_lines,    \* [Procs -> Seq(text)] the fallback loop's accumulator
  input_data,     \* [Procs -> text]  what run() has read
  message,        \* [Procs -> dict]  the parsed request
  result,         \* [Procs -> PluginOutput] what the engine returned
  cache_filename, \* [Procs -> text]  the name _generate_cache_filename gave
  fpos,           \* [Procs -> Nat]   offset of the open cache file handle
  stdout,         \* [Procs -> Seq(response)] lines written to stdout
  stderr,         \* [Procs -> Nat]   lines written to stderr
  cache,          \* [path -> bytes]  the files under the cache directories
  call,           \* the engine function under analysis and its arguments
  ret             \* what that function returned or raised

vars == <<stdin, impl, self_name, pc, linePos, input_lines, input_data, message,
          result, cache_filename, fpos, stdout, stderr, cache, call, ret>>

Procs == {1, 2}

(***************************************************************************)
(* Bounds of the model.                                                    *)
(***************************************************************************)
\* Characters one write() call of the buffered cache file hands to the OS.
ChunkSize == 12

\* Elapsed milliseconds the clock can report for one analyze call.
ElapsedTimes == {9, 10}

(***************************************************************************)
(* Text helpers.                                                           *)
(***************************************************************************)
RECURSIVE Join(_)
\* "".join(parts)
Join(parts) == IF parts = <<>> THEN <<>> ELSE Head(parts) \o Join(Tail(parts))

\* str.replace(old, new) for one-character old and new
Replace(s, old, new) == [i \in 1..Len(s) |-> IF s[i] = old THEN new ELSE s[i]]

Min(a, b) == IF a < b THEN a ELSE b

RECURSIVE Digits(_)
\* str(n) for n >= 0, as json.dump writes an int
Digits(n) ==
  LET d == <<"0","1","2","3","4","5","6","7","8","9">>[(n % 10) + 1]
  IN IF n < 10 THEN <<d>> ELSE Append(Digits(n \div 10), d)

(***************************************************************************)
(* stdin text and JSON.  A document is a sequence of tokens: the brackets  *)
(* and braces, the digit 1, white space, a character x that belongs to no  *)
(* JSON value, and "members" tokens, each standing for the complete        *)
(* key/value list of an object and carrying the dict it denotes.           *)
(***************************************************************************)
Tok(c) == [t |-> c]

Members(d) == [t |-> "members", dict |-> d]

IsSpace(tok) == tok.t \in {" ", "\n"}

RECURSIVE LStrip(_)
LStrip(s) == IF s # <<>> /\ IsSpace(Head(s)) THEN LStrip(Tail(s)) ELSE s

RECURSIVE RStrip(_)
RStrip(s) ==
  IF s # <<>> /\ IsSpace(s[Len(s)]) THEN RStrip(SubSeq(s, 1, Len(s) - 1)) ELSE s

\* str.strip()
Strip(s) == RStrip(LStrip(s))

RECURSIVE JoinLines(_)
\* the text of a stream whose lines are given without their line ends
JoinLines(lines) ==
  IF lines = <<>> THEN <<>>
  ELSE Head(lines) \o <<Tok("\n")>> \o JoinLines(Tail(lines))

AllOnes(s) == s # <<>> /\ \A i \in 1..Len(s) : s[i].t = "1"

Inner(s) == Strip(SubSeq(s, 2, Len(s) - 1))

RECURSIVE json_valid(_)
\* whether json.loads(text) returns (TRUE) or raises JSONDecodeError (FALSE)
json_valid(text) ==
  LET s == Strip(text) IN
  IF s = <<>> THEN FALSE
  ELSE IF AllOnes(s) THEN TRUE
  ELSE IF Len(s) >= 2 /\ s[1].t = "[" /\ s[Len(s)].t = "]"
       THEN Inner(s) = <<>> \/ json_valid(Inner(s))
  ELSE IF Len(s) >= 2 /\ s[1].t = "{" /\ s[Len(s)].t = "}"
       THEN Inner(s) = <<>> \/ (Len(Inner(s)) = 1 /\ Inner(s)[1].t = "members")
  ELSE FALSE

\* whether the value json.loads(text) returns is a dict
json_is_dict(text) == json_valid(text) /\ Strip(text)[1].t = "{"

EmptyDict == [k \in {} |-> <<>>]

\* the dict json.loads(text) returns, for a text with json_is_dict
json_dict(text) ==
  IF Inner(Strip(text)) = <<>> THEN EmptyDict ELSE Inner(Strip(text))[1].dict

\* message.get("type"): the value, or "None" when the key is absent
GetType(d) == IF "type" \in DOMAIN d THEN d.type ELSE "None"

(***************************************************************************)
(* The cache filename and the cache path.                                  *)
(***************************************************************************)
HexChars == <<"0","1","2","3","4","5","6","7","8","9","a","b","c","d","e","f">>

\* The characters request texts are made of, in a fixed order.
Alphabet == <<"a", "b", "c", "d", "/", "\\", ".", "_">>

Code(c) == CHOOSE i \in 1..Len(Alphabet) : Alphabet[i] = c

RECURSIVE Encode(_)
\* str.encode(): the text as one number, base Len(Alphabet) + 1
Encode(s) ==
  IF s = <<>> THEN 0
  ELSE Encode(SubSeq(s, 1, Len(s) - 1)) * (Len(Alphabet) + 1) + Code(s[Len(s)])

RECURSIVE Pow16(_)
Pow16(k) == IF k = 0 THEN 1 ELSE 16 * Pow16(k - 1)

\* hashlib.md5(data).hexdigest(): 32 lowercase hexadecimal characters that are a
\* fixed function of the bytes hashed.  MD5 itself is replaced by a digest that
\* has no collision on the texts of the model: its characters are the base-16
\* digits of the encoded text, each shifted by a constant.
md5_hexdigest(s) ==
  [i \in 1..32 |->
     HexChars[(((Encode(s) \div Pow16((i - 1) % 7)) + 5 * i) % 16) + 1]]

\* ContentHash with the project root hashed as well.
ContentHashWithRoot(in) ==
  SubSeq(md5_hexdigest(in.project_root \o in.file_path \o in.content), 1, 16)

\* content_hash of _generate_cache_filename: hexdigest()[:16]
ContentHash(in) == SubSeq(md5_hexdigest(in.file_path \o in.content), 1, 16)

\* CleanPath without the replacement of '\'.
CleanPathKeepsBackslash(relative_path) ==
  Replace(Replace(relative_path, "/", "_"), ".", "_")

\* clean_path of _generate_cache_filename
CleanPath(relative_path) ==
  Replace(Replace(Replace(relative_path, "/", "_"), "\\", "_"), ".", "_")

JsonSuffix == <<".", "j", "s", "o", "n">>

\* BaseAnalyzer._generate_cache_filename
GenerateCacheFilename(name, in) ==
  name \o <<"_">> \o CleanPath(in.relative_path) \o <<"_">> \o ContentHash(in)
       \o JsonSuffix

RECURSIVE SplitPath(_)
\* the components of a path: the text between its '/' separators
SplitPath(s) ==
  IF \A i \in 1..Len(s) : s[i] # "/" THEN (IF s = <<>> THEN <<>> ELSE <<s>>)
  ELSE LET k == CHOOSE i \in 1..Len(s) :
                   s[i] = "/" /\ \A j \in 1..(i - 1) : s[j] # "/"
           first == SubSeq(s, 1, k - 1)
       IN (IF first = <<>> THEN <<>> ELSE <<first>>)
            \o SplitPath(SubSeq(s, k + 1, Len(s)))

\* Path(cache_dir) / cache_filename, as the sequence of its components: an
\* absolute right operand replaces the left one (pathlib).
CachePath(cache_dir, filename) ==
  IF filename # <<>> /\ filename[1] = "/" THEN SplitPath(filename)
  ELSE SplitPath(cache_dir) \o SplitPath(filename)

(***************************************************************************)
(* The engine, and the serialized result.                                  *)
(***************************************************************************)
PluginVersion == <<"1", ".", "0", ".", "0">>

RequiredFields == {"file_path", "relative_path", "content", "project_root", "cache_dir"}

AllowedFields == RequiredFields \cup {"plugin_config"}

\* whether PluginInput(**input_dict) constructs (TRUE) or raises TypeError
PluginInputOK(d) == RequiredFields \subseteq DOMAIN d /\ DOMAIN d \subseteq AllowedFields

\* The PluginOutput of the engine's analyze for an input: the engine is a
\* function of the plugin and of the input's path, content and project root.
Analyze(name, in) ==
  [file_path |-> in.file_path,
   elements  |-> <<name, in.content>>,
   relationships |-> <<name, in.relative_path, in.content, in.project_root>>]

\* json.dump(asdict(result), f, indent=2): the text written to the cache file
Serialize(r) ==
  <<"{">> \o r.file_path \o <<";">> \o Join(r.elements) \o <<";">>
    \o Join(r.relationships) \o <<";">> \o Digits(r.processing_time_ms)
    \o <<";">> \o r.plugin_version \o <<"}">>

(***************************************************************************)
(* The requests of the model.                                              *)
(***************************************************************************)
PluginInput(fp, rp, c, pr, cd) ==
  [file_path |-> fp, relative_path |-> rp, content |-> c, project_root |-> pr,
   cache_dir |-> cd]

BaseInput == PluginInput(<<"/", "a">>, <<"a", ".", "b">>, <<"b">>, <<"/">>, <<"c">>)

\* Inputs that differ from BaseInput in one field (two for the second one, whose
\* file_path + content is the same text as BaseInput's).
AnalyzeInputs ==
  { BaseInput,
    PluginInput(<<"/", "a", "b">>, <<"a", ".", "b">>, <<>>, <<"/">>, <<"c">>),
    PluginInput(<<"/", "b">>, <<"a", ".", "b">>, <<"b">>, <<"/">>, <<"c">>),
    PluginInput(<<"/", "a">>, <<"a", "/", "b">>, <<"b">>, <<"/">>, <<"c">>),
    PluginInput(<<"/", "a">>, <<".", ".", "\\", "b">>, <<"b">>, <<"/">>, <<"c">>),
    PluginInput(<<"/", "a">>, <<"a", ".", "b">>, <<"a">>, <<"/">>, <<"c">>),
    PluginInput(<<"/", "a">>, <<"a", ".", "b">>, <<"b">>, <<"/", "d">>, <<"c">>),
    PluginInput(<<"/", "a">>, <<"a", ".", "b">>, <<"b">>, <<"/">>, <<"d">>),
    [BaseInput EXCEPT !.cache_dir = <<"c", "/", "d">>],
    [file_path |-> <<"/", "a">>, relative_path |-> <<"a", ".", "b">>,
     content |-> <<"b">>, project_root |-> <<"/">>, cache_dir |-> <<"c">>,
     plugin_config |-> <<"a">>] }

\* One line holding the object whose members are the dict d.
Obj(d) == <<Tok("{"), Members(d), Tok("}")>>

AnalyzeMsg(in) == [type |-> "analyze", input |-> in]

\* The dicts of the requests: the three message types with well-formed and with
\* malformed fields, an unknown type, and no type.
RequestDicts ==
  { [type |-> "get_info"],
    [type |-> "can_analyze", file_path |-> <<"a", ".", "b">>, content_preview |-> <<"b">>],
    [type |-> "can_analyze", file_path |-> <<"a", ".", "b">>],
    [type |-> "bogus"],
    [file_path |-> <<"a">>],
    [type |-> "analyze"],
    AnalyzeMsg([file_path |-> <<"/", "a">>, content |-> <<"b">>]) }
  \cup { AnalyzeMsg(in) : in \in AnalyzeInputs }

\* Line sequences that hold no request: no line, a blank line, text that is not
\* JSON, JSON values that are not objects, an empty object.
NoRequestLines ==
  { <<>>,
    << <<Tok(" ")>> >>,
    << <<Tok("x")>> >>,
    << <<Tok("1")>> >>,
    << <<Tok("["), Tok(" "), Tok("]")>> >>,
    << <<Tok("{"), Tok("}")>> >> }

\* A request spread over three lines, and a request followed by a line that is
\* not JSON.
SplitLines ==
  { << <<Tok("{")>>, <<Tok(" "), Members(AnalyzeMsg(BaseInput))>>, <<Tok("}")>> >>,
    << Obj([type |-> "get_info"]), <<Tok("x")>> >> }

StreamLines == NoRequestLines \cup SplitLines \cup { << Obj(d) >> : d \in RequestDicts }

\* Line sequences of the streams on which sys.stdin.read() raises.
FailingLines ==
  NoRequestLines \cup SplitLines
    \cup { << Obj(d) >> : d \in { [type |-> "bogus"], [type |-> "can_analyze"],
                                  AnalyzeMsg(BaseInput) } }

\* fails: whether sys.stdin.read() raises on the stream.
Streams ==
  { [fails |-> FALSE, lines |-> l] : l \in StreamLines }
    \cup { [fails |-> TRUE, lines |-> l] : l \in FailingLines }

Names == { <<"p", "y", "t", "h", "o", "n">>, <<"r", "u", "s", "t">> }

\* A file some earlier analysis left in the cache directory c.
OldFile == << <<"c">>, <<"o", "l", "d">> >>

NoResult ==
  [file_path |-> <<>>, elements |-> <<>>, relationships |-> <<>>,
   processing_time_ms |-> 0, plugin_version |-> <<>>]

\* No engine function is under analysis while the runtime is.
NoCall == [op |-> "none"]

Init ==
  /\ stdin \in [Procs -> Streams]
  /\ impl \in {"sdk", "shared"}
  /\ self_name \in Names
  /\ pc = [p \in Procs |-> "start"]
  /\ linePos = [p \in Procs |-> 0]
  /\ input_lines = [p \in Procs |-> <<>>]
  /\ input_data = [p \in Procs |-> <<>>]
  /\ message = [p \in Procs |-> EmptyDict]
  /\ result = [p \in Procs |-> NoResult]
  /\ cache_filename = [p \in Procs |-> <<>>]
  /\ fpos = [p \in Procs |-> 0]
  /\ stdout = [p \in Procs |-> <<>>]
  /\ stderr = [p \in Procs |-> 0]
  /\ cache = (OldFile :> <<"{", "}">>)
  /\ call = NoCall
  /\ ret = NoCall

(***************************************************************************)
(* Responses.                                                              *)
(***************************************************************************)
\* _send_response: one line on stdout
SendResponse(p, response) == stdout' = [stdout EXCEPT ![p] = Append(@, response)]

\* _send_error: message is the fixed text the f-string starts with; details is
\* "None" or "traceback" (the string traceback.format_exc() returns)
SendError(p, msg, details) ==
  SendResponse(p, [status |-> "error", message |-> msg, details |-> details])

\* The steps of run() are taken by one invocation at a time, in order.
Turn(p) == \A q \in Procs : q < p => pc[q] = "done"

(***************************************************************************)
(* run(): reading stdin.                                                   *)
(***************************************************************************)
\* input_data = sys.stdin.read().strip()
ReadAll(p) ==
  /\ pc[p] = "start"
  /\ ~stdin[p].fails
  /\ input_data' = [input_data EXCEPT ![p] = Strip(JoinLines(stdin[p].lines))]
  /\ pc' = [pc EXCEPT ![p] = "check"]
  /\ UNCHANGED <<call, ret, stdin, impl, self_name, linePos, input_lines, message, result,
                 cache_filename, fpos, stdout, stderr, cache>>

\* sys.stdin.read() raises in csd_plugin_sdk: an error response, then the fallback
ReadFailsSdk(p) ==
  /\ pc[p] = "start"
  /\ stdin[p].fails
  /\ impl = "sdk"
  /\ SendError(p, "Failed to read input", "None")
  /\ pc' = [pc EXCEPT ![p] = "fallback"]
  /\ UNCHANGED <<call, ret, stdin, impl, self_name, linePos, input_lines, input_data, message,
                 result, cache_filename, fpos, stderr, cache>>

\* sys.stdin.read() raises in shared/base_analyzer: a line on stderr, then the fallback
ReadFailsShared(p) ==
  /\ pc[p] = "start"
  /\ stdin[p].fails
  /\ impl = "shared"
  /\ stderr' = [stderr EXCEPT ![p] = @ + 1]
  /\ pc' = [pc EXCEPT ![p] = "fallback"]
  /\ UNCHANGED <<call, ret, stdin, impl, self_name, linePos, input_lines, input_data, message,
                 result, cache_filename, fpos, stdout, cache>>

\* one iteration of "for line in sys.stdin": append the stripped line, stop when
\* the accumulated text parses
FallbackLine(p) ==
  /\ pc[p] = "fallback"
  /\ linePos[p] < Len(stdin[p].lines)
  /\ LET acc  == Append(input_lines[p], Strip(stdin[p].lines[linePos[p] + 1]))
         full == Join(acc)
     IN /\ input_lines' = [input_lines EXCEPT ![p] = acc]
        /\ linePos' = [linePos EXCEPT ![p] = @ + 1]
        /\ IF json_valid(full)
           THEN /\ input_data' = [input_data EXCEPT ![p] = full]
                /\ pc' = [pc EXCEPT ![p] = "check"]
           ELSE UNCHANGED <<input_data, pc>>
  /\ UNCHANGED <<call, ret, stdin, impl, self_name, message, result, cache_filename, fpos,
                 stdout, stderr, cache>>

\* the for loop's else: the stream ended before the text parsed
FallbackEnd(p) ==
  /\ pc[p] = "fallback"
  /\ linePos[p] = Len(stdin[p].lines)
  /\ input_data' = [input_data EXCEPT ![p] = Join(input_lines[p])]
  /\ pc' = [pc EXCEPT ![p] = "check"]
  /\ UNCHANGED <<call, ret, stdin, impl, self_name, linePos, input_lines, message, result,
                 cache_filename, fpos, stdout, stderr, cache>>

\* the iteration over sys.stdin raises as well: error response and return
FallbackRaises(p) ==
  /\ pc[p] = "fallback"
  /\ SendError(p, "Failed to read input", "None")
  /\ pc' = [pc EXCEPT ![p] = "done"]
  /\ UNCHANGED <<call, ret, stdin, impl, self_name, linePos, input_lines, input_data, message,
                 result, cache_filename, fpos, stderr, cache>>

(***************************************************************************)
(* run(): checking and dispatching what was read.                          *)
(***************************************************************************)
\* if not input_data
NoInput(p) ==
  /\ pc[p] = "check"
  /\ input_data[p] = <<>>
  /\ SendError(p, "No input received", "None")
  /\ pc' = [pc EXCEPT ![p] = "done"]
  /\ UNCHANGED <<call, ret, stdin, impl, self_name, linePos, input_lines, input_data, message,
                 result, cache_filename, fpos, stderr, cache>>

\* InvalidJson with the JSONDecodeError left to run()'s outer except.
InvalidJsonUncaught(p) ==
  /\ pc[p] = "check"
  /\ input_data[p] # <<>>
  /\ ~json_valid(input_data[p])
  /\ SendError(p, "Plugin error", "traceback")
  /\ pc' = [pc EXCEPT ![p] = "done"]
  /\ UNCHANGED <<call, ret, stdin, impl, self_name, linePos, input_lines, input_data, message,
                 result, cache_filename, fpos, stderr, cache>>

\* json.loads raises JSONDecodeError
InvalidJson(p) ==
  /\ pc[p] = "check"
  /\ input_data[p] # <<>>
  /\ ~json_valid(input_data[p])
  /\ SendError(p, "Invalid JSON", "None")
  /\ pc' = [pc EXCEPT ![p] = "done"]
  /\ UNCHANGED <<call, ret, stdin, impl, self_name, linePos, input_lines, input_data, message,
                 result, cache_filename, fpos, stderr, cache>>

\* the parsed value has no get(): AttributeError reaches run()'s outer except
NotADict(p) ==
  /\ pc[p] = "check"
  /\ json_valid(input_data[p])
  /\ ~json_is_dict(input_data[p])
  /\ SendError(p, "Plugin error", "traceback")
  /\ pc' = [pc EXCEPT ![p] = "done"]
  /\ UNCHANGED <<call, ret, stdin, impl, self_name, linePos, input_lines, input_data, message,
                 result, cache_filename, fpos, stderr, cache>>

HandlerOf(type) ==
  CASE type = "can_analyze" -> "can"
    [] type = "analyze" -> "analyze"
    [] type = "get_info" -> "info"
    [] OTHER -> "unknown"

\* the if/elif chain on message.get("type")
Dispatch(p) ==
  /\ pc[p] = "check"
  /\ json_is_dict(input_data[p])
  /\ message' = [message EXCEPT ![p] = json_dict(input_data[p])]
  /\ pc' = [pc EXCEPT ![p] = HandlerOf(GetType(json_dict(input_data[p])))]
  /\ UNCHANGED <<call, ret, stdin, impl, self_name, linePos, input_lines, input_data, result,
                 cache_filename, fpos, stdout, stderr, cache>>

\* the chain's else
UnknownType(p) ==
  /\ pc[p] = "unknown"
  /\ SendError(p, "Unknown message type", "None")
  /\ pc' = [pc EXCEPT ![p] = "done"]
  /\ UNCHANGED <<call, ret, stdin, impl, self_name, linePos, input_lines, input_data, message,
                 result, cache_filename, fpos, stderr, cache>>

(***************************************************************************)
(* The handlers.                                                           *)
(***************************************************************************)
\* What the engine's can_analyze may return: (can_analyze, confidence in tenths).
CanResults == { [can |-> TRUE, confidence |-> 10], [can |-> FALSE, confidence |-> 0] }

\* _handle_can_analyze: a missing key (KeyError) or a raising engine gives the
\* handler's error response
HandleCanAnalyze(p) ==
  /\ pc[p] = "can"
  /\ \E raises \in BOOLEAN, r \in CanResults :
       IF {"file_path", "content_preview"} \subseteq DOMAIN message[p] /\ ~raises
       THEN SendResponse(p, [status |-> "can_analyze", can_analyze |-> r.can,
                             confidence |-> r.confidence])
       ELSE SendError(p, "Error in can_analyze", "None")
  /\ pc' = [pc EXCEPT ![p] = "done"]
  /\ UNCHANGED <<call, ret, stdin, impl, self_name, linePos, input_lines, input_data, message,
                 result, cache_filename, fpos, stderr, cache>>

\* get_info() of the module the plugin imports
GetInfo ==
  IF impl = "sdk"
  THEN [status |-> "info", name |-> self_name, version |-> PluginVersion,
        plugin_type |-> "input"]
  ELSE [status |-> "info", name |-> self_name, version |-> PluginVersion]

\* _handle_get_info
HandleGetInfo(p) ==
  /\ pc[p] = "info"
  /\ \E raises \in BOOLEAN :
       IF raises THEN SendError(p, "Error in get_info", "None")
       ELSE SendResponse(p, GetInfo)
  /\ pc' = [pc EXCEPT ![p] = "done"]
  /\ UNCHANGED <<call, ret, stdin, impl, self_name, linePos, input_lines, input_data, message,
                 result, cache_filename, fpos, stderr, cache>>

\* HandleAnalyze with the elapsed time made part of the cache filename.
HandleAnalyzeStamped(p) ==
  /\ pc[p] = "analyze"
  /\ \E raises \in BOOLEAN, ms \in ElapsedTimes :
       IF /\ "input" \in DOMAIN message[p]
          /\ PluginInputOK(message[p].input)
          /\ ~raises
       THEN /\ result' = [result EXCEPT ![p] =
                 [file_path |-> Analyze(self_name, message[p].input).file_path,
                  elements |-> Analyze(self_name, message[p].input).elements,
                  relationships |-> Analyze(self_name, message[p].input).relationships,
                  processing_time_ms |-> ms,
                  plugin_version |-> PluginVersion]]
            /\ cache_filename' = [cache_filename EXCEPT ![p] =
                 Digits(ms) \o GenerateCacheFilename(self_name, message[p].input)]
            /\ pc' = [pc EXCEPT ![p] = "open"]
            /\ UNCHANGED stdout
       ELSE /\ SendError(p, "Error in analyze", "None")
            /\ pc' = [pc EXCEPT ![p] = "done"]
            /\ UNCHANGED <<result, cache_filename>>
  /\ UNCHANGED <<call, ret, stdin, impl, self_name, linePos, input_lines, input_data, message,
                 fpos, stderr, cache>>

\* HandleAnalyze with the cache file created before the engine runs.
HandleAnalyzeOpensFirst(p) ==
  /\ pc[p] = "analyze"
  /\ \E raises \in BOOLEAN, ms \in ElapsedTimes :
       IF /\ "input" \in DOMAIN message[p]
          /\ PluginInputOK(message[p].input)
       THEN LET path == CachePath(message[p].input.cache_dir,
                                  GenerateCacheFilename(self_name, message[p].input))
            IN /\ cache' = [q \in DOMAIN cache \cup {path} |->
                              IF q = path THEN <<>> ELSE cache[q]]
               /\ IF raises
                  THEN /\ SendError(p, "Error in analyze", "None")
                       /\ pc' = [pc EXCEPT ![p] = "done"]
                       /\ UNCHANGED <<result, cache_filename>>
                  ELSE /\ result' = [result EXCEPT ![p] =
                            [file_path |-> Analyze(self_name, message[p].input).file_path,
                             elements |-> Analyze(self_name, message[p].input).elements,
                             relationships |->
                               Analyze(self_name, message[p].input).relationships,
                             processing_time_ms |-> ms,
                             plugin_version |-> PluginVersion]]
                       /\ cache_filename' = [cache_filename EXCEPT ![p] =
                            GenerateCacheFilename(self_name, message[p].input)]
                       /\ pc' = [pc EXCEPT ![p] = "open"]
                       /\ UNCHANGED stdout
       ELSE /\ SendError(p, "Error in analyze", "None")
            /\ pc' = [pc EXCEPT ![p] = "done"]
            /\ UNCHANGED <<result, cache_filename, cache>>
  /\ UNCHANGED <<call, ret, stdin, impl, self_name, linePos, input_lines, input_data, message,
                 fpos, stderr>>

\* _handle_analyze up to the cache filename: message["input"], PluginInput(**...),
\* the engine's analyze, the timing, _generate_cache_filename
HandleAnalyze(p) ==
  /\ pc[p] = "analyze"
  /\ \E raises \in BOOLEAN, ms \in ElapsedTimes :
       IF /\ "input" \in DOMAIN message[p]
          /\ PluginInputOK(message[p].input)
          /\ ~raises
       THEN /\ result' = [result EXCEPT ![p] =
                 [file_path |-> Analyze(self_name, message[p].input).file_path,
                  elements |-> Analyze(self_name, message[p].input).elements,
                  relationships |-> Analyze(self_name, message[p].input).relationships,
                  processing_time_ms |-> ms,
                  plugin_version |-> PluginVersion]]
            /\ cache_filename' = [cache_filename EXCEPT ![p] =
                 GenerateCacheFilename(self_name, message[p].input)]
            /\ pc' = [pc EXCEPT ![p] = "open"]
            /\ UNCHANGED stdout
       ELSE /\ SendError(p, "Error in analyze", "None")
            /\ pc' = [pc EXCEPT ![p] = "done"]
            /\ UNCHANGED <<result, cache_filename>>
  /\ UNCHANGED <<call, ret, stdin, impl, self_name, linePos, input_lines, input_data, message,
                 fpos, stderr, cache>>

\* cache_path of _write_to_cache
CachePathOf(p) == CachePath(message[p].input.cache_dir, cache_filename[p])

\* the bytes of a file after write(chunk) at offset pos; a gap reads as NULs
WriteAt(content, pos, chunk) ==
  LET base == IF pos > Len(content)
              THEN content \o [i \in 1..(pos - Len(content)) |-> "NUL"]
              ELSE content
  IN SubSeq(base, 1, pos) \o chunk
       \o SubSeq(base, pos + Len(chunk) + 1, Len(base))

\* _write_to_cache: mkdir and open(cache_path, "w"), which creates the file or
\* truncates it; either may raise OSError
CacheOpen(p) ==
  /\ pc[p] = "open"
  /\ \E raises \in BOOLEAN :
       IF raises
       THEN /\ SendError(p, "Error in analyze", "None")
            /\ pc' = [pc EXCEPT ![p] = "done"]
            /\ UNCHANGED <<cache, fpos>>
       ELSE /\ cache' = [q \in DOMAIN cache \cup {CachePathOf(p)} |-> 
                           IF q = CachePathOf(p) THEN <<>> ELSE cache[q]]
            /\ fpos' = [fpos EXCEPT ![p] = 0]
            /\ pc' = [pc EXCEPT ![p] = "write"]
            /\ UNCHANGED stdout
  /\ UNCHANGED <<call, ret, stdin, impl, self_name, linePos, input_lines, input_data, message,
                 result, cache_filename, stderr>>

\* json.dump into the open file: the next chunk goes to the file at the handle's
\* offset; after the last one the file is closed.  A write may raise OSError.
CacheWrite(p) ==
  /\ pc[p] = "write"
  /\ \E raises \in BOOLEAN :
       IF raises
       THEN /\ SendError(p, "Error in analyze", "None")
            /\ pc' = [pc EXCEPT ![p] = "done"]
            /\ UNCHANGED <<cache, fpos>>
       ELSE LET data  == Serialize(result[p])
                chunk == SubSeq(data, fpos[p] + 1, Min(fpos[p] + ChunkSize, Len(data)))
            IN /\ cache' = [cache EXCEPT ![CachePathOf(p)] = WriteAt(@, fpos[p], chunk)]
               /\ fpos' = [fpos EXCEPT ![p] = @ + Len(chunk)]
               /\ pc' = [pc EXCEPT ![p] =
                    IF fpos[p] + Len(chunk) = Len(data) THEN "respond" ELSE "write"]
               /\ UNCHANGED stdout
  /\ UNCHANGED <<call, ret, stdin, impl, self_name, linePos, input_lines, input_data, message,
                 result, cache_filename, stderr>>

\* the success response of _handle_analyze
SuccessResponse(p) ==
  [status |-> "success", cache_file |-> cache_filename[p],
   processing_time_ms |-> result[p].processing_time_ms]

\* SendSuccess with the response sent while the file is still being written.
SendSuccessEarly(p) ==
  /\ pc[p] \in {"write", "respond"}
  /\ SendResponse(p, SuccessResponse(p))
  /\ pc' = [pc EXCEPT ![p] = "done"]
  /\ UNCHANGED <<call, ret, stdin, impl, self_name, linePos, input_lines, input_data, message,
                 result, cache_filename, fpos, stderr, cache>>

\* _handle_analyze after _write_to_cache returned
SendSuccess(p) ==
  /\ pc[p] = "respond"
  /\ SendResponse(p, SuccessResponse(p))
  /\ pc' = [pc EXCEPT ![p] = "done"]
  /\ UNCHANGED <<call, ret, stdin, impl, self_name, linePos, input_lines, input_data, message,
                 result, cache_filename, fpos, stderr, cache>>

(***************************************************************************)
(* Specifications.                                                         *)
(***************************************************************************)
\* Invocations run one after the other.
Next ==
  \E p \in Procs :
    \/ Turn(p) /\ ReadAll(p)
    \/ Turn(p) /\ ReadFailsSdk(p)
    \/ Turn(p) /\ ReadFailsShared(p)
    \/ Turn(p) /\ FallbackLine(p)
    \/ Turn(p) /\ FallbackEnd(p)
    \/ Turn(p) /\ FallbackRaises(p)
    \/ Turn(p) /\ NoInput(p)
    \/ Turn(p) /\ InvalidJson(p)
    \/ Turn(p) /\ NotADict(p)
    \/ Turn(p) /\ Dispatch(p)
    \/ Turn(p) /\ UnknownType(p)
    \/ Turn(p) /\ HandleCanAnalyze(p)
    \/ Turn(p) /\ HandleGetInfo(p)
    \/ Turn(p) /\ HandleAnalyze(p)
    \/ Turn(p) /\ CacheOpen(p)
    \/ Turn(p) /\ CacheWrite(p)
    \/ Turn(p) /\ SendSuccess(p)

Spec == Init /\ [][Next]_vars

\* Streams of the concurrent runs: one of each outcome of run(), and analyze
\* requests that are identical, that differ in content and that differ in cache_dir.
ConcStreams ==
  { [fails |-> FALSE, lines |-> l] :
      l \in { <<>>, << <<Tok("x")>> >>, << <<Tok("1")>> >> }
              \cup { << Obj(d) >> : d \in
                       { [type |-> "bogus"], [type |-> "get_info"],
                         [type |-> "can_analyze", file_path |-> <<"a", ".", "b">>,
                          content_preview |-> <<"b">>],
                         AnalyzeMsg(BaseInput),
                         AnalyzeMsg([BaseInput EXCEPT !.content = <<"a">>]),
                         AnalyzeMsg([BaseInput EXCEPT !.cache_dir = <<"d">>]) } } }
    \cup { [fails |-> TRUE, lines |-> l] :
             l \in { <<>>, << Obj(AnalyzeMsg(BaseInput)) >> } }

InitConc == Init /\ stdin \in [Procs -> ConcStreams]

\* Invocations run concurrently: any of them takes the next step.
NextConc ==
  \E p \in Procs :
    \/ ReadAll(p)
    \/ ReadFailsSdk(p)
    \/ ReadFailsShared(p)
    \/ FallbackLine(p)
    \/ FallbackEnd(p)
    \/ FallbackRaises(p)
    \/ NoInput(p)
    \/ InvalidJson(p)
    \/ NotADict(p)
    \/ Dispatch(p)
    \/ UnknownType(p)
    \/ HandleCanAnalyze(p)
    \/ HandleGetInfo(p)
    \/ HandleAnalyze(p)
    \/ CacheOpen(p)
    \/ CacheWrite(p)
    \/ SendSuccess(p)

SpecConc == InitConc /\ [][NextConc]_vars

(***************************************************************************)
(* Properties.                                                             *)
(***************************************************************************)
Last(seq) == seq[Len(seq)]

\* The invocation's last response is a success.
Succeeded(p) == stdout[p] # <<>> /\ Last(stdout[p]).status = "success"

\* The message of a response, "" for a response that has none.
MessageOf(r) == IF "message" \in DOMAIN r THEN r.message ELSE ""

KnownTypes == {"get_info", "can_analyze", "analyze"}

\* C1: every invocation of run that has returned has written exactly one
\* response line to stdout, whatever the stream held and also when the bulk
\* read failed and the line-by-line fallback was used.
C1_ExactlyOneResponse ==
  \A p \in Procs : pc[p] = "done" => Len(stdout[p]) = 1

\* C2: a success response is emitted only once the full result is in
\* {cache_dir}/{cache_file}: in the step that emits it the named file exists and
\* holds the complete serialized result, and the response has the fields status,
\* cache_file and processing_time_ms and no other.
C2_SuccessAfterWrite ==
  [][\A p \in Procs :
       (Len(stdout'[p]) = Len(stdout[p]) + 1 /\ Last(stdout'[p]).status = "success")
         => /\ DOMAIN Last(stdout'[p]) = {"status", "cache_file", "processing_time_ms"}
            /\ CachePath(message[p].input.cache_dir, Last(stdout'[p]).cache_file)
                 \in DOMAIN cache'
            /\ cache'[CachePath(message[p].input.cache_dir, Last(stdout'[p]).cache_file)]
                 = Serialize(result[p])]_vars

\* C2 witness: an analyze request answered with success, its file complete.
C2_Witness ==
  \E p \in Procs :
    /\ pc[p] = "done"
    /\ Succeeded(p)
    /\ CachePathOf(p) \in DOMAIN cache
    /\ cache[CachePathOf(p)] = Serialize(result[p])

\* C3: an empty stream, text that is not valid JSON and a message of unknown
\* type end in an error response "No input received", "Invalid JSON" and
\* "Unknown message type"; for a stream whose bulk read succeeds the case is
\* decided by the stream's text, after a failed bulk read by the text the
\* fallback gathered.  run returns after it (pc is "done").
C3_TransportErrors ==
  \A p \in Procs :
    (pc[p] = "done"
       /\ (stdin[p].fails => MessageOf(Last(stdout[p])) # "Failed to read input"))
      => LET text == IF stdin[p].fails THEN input_data[p]
                     ELSE Strip(JoinLines(stdin[p].lines))
             last == Last(stdout[p])
         IN /\ text = <<>> =>
                 last.status = "error" /\ MessageOf(last) = "No input received"
            /\ (text # <<>> /\ ~json_valid(text)) =>
                 last.status = "error" /\ MessageOf(last) = "Invalid JSON"
            /\ (json_is_dict(text) /\ GetType(json_dict(text)) \notin KnownTypes) =>
                 last.status = "error" /\ MessageOf(last) = "Unknown message type"

\* C3 witness: the three cases have happened, one of them through the fallback.
C3_Witness ==
  /\ pc[1] = "done" /\ pc[2] = "done"
  /\ ~stdin[1].fails /\ stdin[1].lines = << <<Tok("x")>> >>
  /\ MessageOf(Last(stdout[1])) = "Invalid JSON"
  /\ stdin[2].fails /\ stdin[2].lines = << Obj([type |-> "bogus"]) >>
  /\ MessageOf(Last(stdout[2])) = "Unknown message type"

\* C4: a fault while handling get_info, can_analyze or analyze ends in an error
\* response whose details field is not null.
C4_FaultCarriesDetails ==
  \A p \in Procs :
    (pc[p] = "done" /\ GetType(message[p]) \in KnownTypes
       /\ Last(stdout[p]).status = "error")
      => Last(stdout[p]).details # "None"

\* C5: after two concurrent invocations with the identical analyze input have
\* both answered success, the cache file holds the complete output of one of
\* the two writers.
C5_NoTornFile ==
  \A p, q \in Procs :
    (p # q /\ pc[p] = "done" /\ pc[q] = "done" /\ Succeeded(p) /\ Succeeded(q)
       /\ message[p] = message[q])
      => cache[CachePathOf(p)] \in {Serialize(result[p]), Serialize(result[q])}

\* A text that is the complete serialization of a result of invocation p's request.
CompleteFor(p, text) ==
  \E ms \in ElapsedTimes :
    text = Serialize([result[p] EXCEPT !.processing_time_ms = ms])

\* C6: once a success response naming cache file F is out, F holds a complete
\* serialized result in every later state, also while another invocation with
\* the identical input rewrites F.
C6_ReadAfterSuccess ==
  \A p \in Procs :
    (Succeeded(p) /\ \A q \in Procs : stdin[q] = stdin[p])
      => /\ CachePathOf(p) \in DOMAIN cache
         /\ CompleteFor(p, cache[CachePathOf(p)])

\* The PluginInput of invocation p's analyze request.
InputOf(p) == message[p].input

\* C7 as claimed: two analyze inputs of one engine with the same relative path
\* and content get the same cache filename, whatever their other fields are.
C7_NameIgnoresFilePath ==
  \A p, q \in Procs :
    (cache_filename[p] # <<>> /\ cache_filename[q] # <<>>
       /\ InputOf(p).relative_path = InputOf(q).relative_path
       /\ InputOf(p).content = InputOf(q).content)
      => cache_filename[p] = cache_filename[q]

\* C7 amended: two analyze inputs of one engine with the same relative path,
\* file_path and content get the same cache filename, whatever their
\* project_root, cache_dir and plugin_config are.
C7_NameFunctionOfPathAndContent ==
  \A p, q \in Procs :
    (cache_filename[p] # <<>> /\ cache_filename[q] # <<>>
       /\ InputOf(p).relative_path = InputOf(q).relative_path
       /\ InputOf(p).file_path = InputOf(q).file_path
       /\ InputOf(p).content = InputOf(q).content)
      => cache_filename[p] = cache_filename[q]

\* C7 witness: two inputs that agree on relative path, file_path and content and
\* differ in project_root have both been named.
C7_Witness ==
  /\ cache_filename[1] # <<>> /\ cache_filename[2] # <<>>
  /\ InputOf(1).relative_path = InputOf(2).relative_path
  /\ InputOf(1).file_path = InputOf(2).file_path
  /\ InputOf(1).content = InputOf(2).content
  /\ InputOf(1).project_root # InputOf(2).project_root

HexSet == {HexChars[i] : i \in 1..16}

\* C8: every cache filename is the engine name, "_", the relative path with
\* every '/', '\' and '.' replaced by '_', "_", exactly 16 lowercase hexadecimal
\* characters and ".json"; it holds no path separator, and the file written is a
\* direct child of cache_dir.
C8_FilenameForm ==
  \A p \in Procs :
    cache_filename[p] # <<>> =>
      LET f  == cache_filename[p]
          rp == InputOf(p).relative_path
          n  == Len(self_name)
          m  == Len(rp)
      IN /\ Len(f) = n + 1 + m + 1 + 16 + 5
         /\ SubSeq(f, 1, n) = self_name
         /\ f[n + 1] = "_"
         /\ \A i \in 1..m :
              f[n + 1 + i] = IF rp[i] \in {"/", "\\", "."} THEN "_" ELSE rp[i]
         /\ f[n + m + 2] = "_"
         /\ \A i \in 1..16 : f[n + m + 2 + i] \in HexSet
         /\ SubSeq(f, n + m + 19, n + m + 23) = <<".", "j", "s", "o", "n">>
         /\ \A i \in 1..Len(f) : f[i] \notin {"/", "\\"}
         /\ (pc[p] \in {"write", "respond"} \/ Succeeded(p)) =>
              /\ CachePathOf(p) \in DOMAIN cache
              /\ CachePathOf(p) = SplitPath(InputOf(p).cache_dir) \o <<f>>

\* C8 witness: a relative path with '.', '\' in it has been named and its file
\* written.
C8_Witness ==
  \E p \in Procs :
    /\ pc[p] = "respond"
    /\ InputOf(p).relative_path = <<".", ".", "\\", "b">>

Steps(p) == pc'[p] # pc[p] \/ linePos'[p] # linePos[p]

\* C10: a step of an invocation changes the cache only when the invocation
\* handles an analyze request whose engine has returned a result: get_info,
\* can_analyze, a request rejected with an error and an analyze request whose
\* engine raises leave every file as it was and create none.
C10_OnlyCacheWriteChanges ==
  [][\A p \in Procs :
       (Steps(p) /\ ~(GetType(message[p]) = "analyze" /\ result[p] # NoResult))
         => cache' = cache]_vars

\* C10 witness: an analyze request whose engine raised has been answered, and
\* the cache holds what it held before.
C10_Witness ==
  \E p \in Procs :
    /\ pc[p] = "done"
    /\ GetType(message[p]) = "analyze"
    /\ "input" \in DOMAIN message[p]
    /\ PluginInputOK(message[p].input)
    /\ result[p] = NoResult
    /\ MessageOf(Last(stdout[p])) = "Error in analyze"
    /\ cache = (OldFile :> <<"{", "}">>)

(***************************************************************************)
(* The engines.  Their text is a sequence of one-character strings,        *)
(* written Chars("...").                                                   *)
(***************************************************************************)
Chars(s) == [i \in 1..Len(s) |-> SubSeq(s, i, i)]

Max(a, b) == IF a > b THEN a ELSE b

\* s[n:]
Drop(s, n) == SubSeq(s, n + 1, Len(s))

\* str.startswith(prefix)
StartsWith(s, prefix) == Len(prefix) <= Len(s) /\ SubSeq(s, 1, Len(prefix)) = prefix

\* str.endswith(suffix)
EndsWith(s, suffix) ==
  Len(suffix) <= Len(s) /\ SubSeq(s, Len(s) - Len(suffix) + 1, Len(s)) = suffix

\* sub in s
Contains(s, sub) == \E i \in 0..(Len(s) - Len(sub)) : SubSeq(s, i + 1, i + Len(sub)) = sub

RECURSIVE Count(_, _)
\* str.count(sub): the occurrences that do not overlap, leftmost first
Count(s, sub) ==
  IF Len(s) < Len(sub) THEN 0
  ELSE IF StartsWith(s, sub) THEN 1 + Count(SubSeq(s, Len(sub) + 1, Len(s)), sub)
  ELSE Count(Tail(s), sub)

RECURSIVE Split(_, _)
\* str.split(sep) for a sep that is not empty: never an empty list
Split(s, sep) ==
  IF ~Contains(s, sep) THEN <<s>>
  ELSE LET k == CHOOSE i \in 1..Len(s) :
                  /\ StartsWith(Drop(s, i - 1), sep)
                  /\ \A j \in 1..(i - 1) : ~StartsWith(Drop(s, j - 1), sep)
       IN <<SubSeq(s, 1, k - 1)>> \o Split(Drop(s, k - 1 + Len(sep)), sep)

RECURSIVE JoinWith(_, _)
\* sep.join(parts)
JoinWith(parts, sep) ==
  IF parts = <<>> THEN <<>>
  ELSE IF Len(parts) = 1 THEN parts[1]
  ELSE parts[1] \o sep \o JoinWith(Tail(parts), sep)

\* The index a slice bound i denotes in a list of n items: a negative bound counts
\* from the end, and both ends are clamped.
SliceIndex(i, n) == IF i < 0 THEN Max(i + n, 0) ELSE Min(i, n)

\* seq[lo:hi]
Slice(seq, lo, hi) ==
  IF SliceIndex(lo, Len(seq)) >= SliceIndex(hi, Len(seq)) THEN <<>>
  ELSE SubSeq(seq, SliceIndex(lo, Len(seq)) + 1, SliceIndex(hi, Len(seq)))

\* The runtime's variables, which no engine function touches.
runtime_vars == <<stdin, impl, self_name, pc, linePos, input_lines, input_data,
                  message, result, cache_filename, fpos, stdout, stderr, cache>>

\* No invocation of the runtime is in progress.
RuntimeIdle ==
  /\ stdin = [p \in Procs |-> [fails |-> FALSE, lines |-> <<>>]]
  /\ impl = "sdk"
  /\ self_name = <<"p", "y", "t", "h", "o", "n">>
  /\ pc = [p \in Procs |-> "done"]
  /\ linePos = [p \in Procs |-> 0]
  /\ input_lines = [p \in Procs |-> <<>>]
  /\ input_data = [p \in Procs |-> <<>>]
  /\ message = [p \in Procs |-> EmptyDict]
  /\ result = [p \in Procs |-> NoResult]
  /\ cache_filename = [p \in Procs |-> <<>>]
  /\ fpos = [p \in Procs |-> 0]
  /\ stdout = [p \in Procs |-> <<>>]
  /\ stderr = [p \in Procs |-> 0]
  /\ cache = (OldFile :> <<"{", "}">>)

(***************************************************************************)
(* calculate_complexity.                                                   *)
(***************************************************************************)
complexity_keywords ==
  << Chars("if"), Chars("elif"), Chars("else"), Chars("for"), Chars("while"),
     Chars("try"), Chars("except"), Chars("match"), Chars("case") >>

\* code.split("\n")[element_start - 1 : element_end], joined again
CodeBlock(code, element_start, element_end) ==
  JoinWith(Slice(Split(code, <<"\n">>), element_start - 1, element_end), <<"\n">>)

RECURSIVE KeywordHits(_, _)
\* the sum, over the first n keywords, of the counts of " kw " and "\tkw "
KeywordHits(code_block, n) ==
  IF n = 0 THEN 0
  ELSE KeywordHits(code_block, n - 1)
         + Count(code_block, <<" ">> \o complexity_keywords[n] \o <<" ">>)
         + Count(code_block, <<"\t">> \o complexity_keywords[n] \o <<" ">>)

\* calculate_complexity without the final max(1, ...).
calculate_complexity_unclamped(code, element_start, element_end) ==
  1 + KeywordHits(CodeBlock(code, element_start, element_end), Len(complexity_keywords))
    + Count(CodeBlock(code, element_start, element_end), Chars("def ")) - 1

\* calculate_complexity
calculate_complexity(code, element_start, element_end) ==
  Max(1, 1 + KeywordHits(CodeBlock(code, element_start, element_end),
                         Len(complexity_keywords))
           + Count(CodeBlock(code, element_start, element_end), Chars("def ")) - 1)

\* The pieces the code texts of the model are made of: keyword occurrences behind
\* a space and behind a tab, "def ", a bare keyword, line ends and other text.
CodeFragments ==
  { <<>>, Chars(" if "), Chars("\tif "), Chars(" for "), Chars(" elif "),
    Chars("def "), Chars("if"), <<"\n">>, <<" ">>, <<"x">> }

ComplexityCodes == { a \o b : a \in CodeFragments, b \in CodeFragments }

\* (element_start, element_end): the ranges callers pass, an empty range, and a
\* start of 0, which Python's slice reads as "the last line".
LineRanges == { <<1, 1>>, <<1, 2>>, <<2, 2>>, <<2, 1>>, <<0, 2>> }

InitComplexity ==
  /\ RuntimeIdle
  /\ call \in { [op |-> "calculate_complexity", code |-> c,
                 element_start |-> r[1], element_end |-> r[2]] :
                c \in ComplexityCodes, r \in LineRanges }
  /\ ret = NoCall

\* One call of calculate_complexity.
CalculateComplexity ==
  /\ call.op = "calculate_complexity"
  /\ ret = NoCall
  /\ ret' = [value |-> calculate_complexity(call.code, call.element_start,
                                            call.element_end)]
  /\ UNCHANGED call
  /\ UNCHANGED runtime_vars

RECURSIVE LineStart(_, _)
\* the number of characters before line j of the lines
LineStart(lines, j) ==
  IF j = 1 THEN 0 ELSE LineStart(lines, j - 1) + Len(lines[j - 1]) + 1

\* The places of the code, as the number of characters before each, that lie on
\* a line of the range.
InRange(code, element_start, element_end) ==
  LET lines == Split(code, <<"\n">>) IN
  { k \in 0..Len(code) :
      \E j \in (SliceIndex(element_start - 1, Len(lines)) + 1)
                 ..SliceIndex(element_end, Len(lines)) :
        LineStart(lines, j) <= k /\ k <= LineStart(lines, j) + Len(lines[j]) }

\* The code with one more keyword occurrence at place k, behind the delimiter d.
WithKeyword(code, k, d, kw) ==
  SubSeq(code, 1, k) \o <<d>> \o kw \o <<" ">> \o SubSeq(code, k + 1, Len(code))

\* The caller's code gets one more control-flow keyword inside the range, and
\* calculate_complexity is called again.
InsertKeyword ==
  /\ call.op = "calculate_complexity"
  /\ ret # NoCall
  /\ "before" \notin DOMAIN ret
  /\ \E k \in InRange(call.code, call.element_start, call.element_end),
        n \in 1..Len(complexity_keywords), d \in {" ", "\t"} :
       /\ call' = [call EXCEPT !.code = WithKeyword(call.code, k, d,
                                                    complexity_keywords[n])]
       /\ ret' = [value |-> calculate_complexity(
                              WithKeyword(call.code, k, d, complexity_keywords[n]),
                              call.element_start, call.element_end),
                  before |-> ret.value]
  /\ UNCHANGED runtime_vars

NextComplexity == CalculateComplexity \/ InsertKeyword

SpecComplexity == InitComplexity /\ [][NextComplexity]_vars

\* C15: calculate_complexity is at least 1 for every code and line range, and
\* the score after one more space- or tab-delimited control-flow keyword was
\* inserted inside the range is never below the score before.
C15_ComplexityFloorAndMonotone ==
  (call.op = "calculate_complexity" /\ ret # NoCall) =>
    /\ ret.value >= 1
    /\ "before" \in DOMAIN ret => ret.value >= ret.before

\* An insertion that split an occurrence the score had counted: the score is
\* above 1 and the same as before.
C15_Witness ==
  /\ call.op = "calculate_complexity"
  /\ ret # NoCall
  /\ "before" \in DOMAIN ret
  /\ ret.before >= 2
  /\ ret.value = ret.before

(***************************************************************************)
(* can_analyze of the two engines.  A confidence is in tenths.             *)
(***************************************************************************)
\* str.lower()
Lower(s) ==
  LET upper == Chars("ABCDEFGHIJKLMNOPQRSTUVWXYZ")
      lower == Chars("abcdefghijklmnopqrstuvwxyz")
  IN [i \in 1..Len(s) |->
        IF \E k \in 1..Len(upper) : upper[k] = s[i]
        THEN lower[CHOOSE k \in 1..Len(upper) : upper[k] = s[i]]
        ELSE s[i]]

\* Path(file_path).name: the last component, "." components dropped
PathName(file_path) ==
  LET parts == SelectSeq(SplitPath(file_path), LAMBDA c : c # <<".">>)
  IN IF parts = <<>> THEN <<>> ELSE parts[Len(parts)]

\* Path(file_path).suffix: the name from its last dot on, unless that dot is the
\* first or the last character of the name
PathSuffix(file_path) ==
  LET name == PathName(file_path)
      dots == { i \in 1..Len(name) : name[i] = "." }
      last == CHOOSE i \in dots : \A j \in dots : j <= i
  IN IF dots # {} /\ 1 < last /\ last < Len(name)
     THEN SubSeq(name, last, Len(name)) ELSE <<>>

\* self.supported_extensions of the engine
supported_extensions(engine) ==
  IF engine = "python" THEN { Chars(".py") } ELSE { Chars(".rs") }

\* self.supported_filenames of the engine
supported_filenames(engine) ==
  IF engine = "python"
  THEN { Chars("requirements.txt"), Chars("setup.py"), Chars("pyproject.toml"),
         Chars("Pipfile"), Chars("poetry.lock"), Chars("tox.ini"),
         Chars("pytest.ini"), Chars(".flake8"), Chars(".pylintrc") }
  ELSE { Chars("Cargo.toml"), Chars("Cargo.lock"), Chars(".rustfmt.toml"),
         Chars("rust-toolchain.toml"), Chars("rust-toolchain") }

\* path.name.lower() in [name.lower() for name in self.supported_filenames]
IsSupportedFilename(engine, file_path) ==
  Lower(PathName(file_path)) \in { Lower(n) : n \in supported_filenames(engine) }

\* the two shebang prefixes PythonAnalyzer.can_analyze recognizes
HasShebang(content_preview) ==
  \/ StartsWith(content_preview, Chars("#!/usr/bin/env python"))
  \/ StartsWith(content_preview, Chars("#!/usr/bin/python"))

\* python_indicators and rust_indicators
Indicators(engine) ==
  IF engine = "python"
  THEN { Chars("def "), Chars("class "), Chars("import "), Chars("from "),
         Chars("__name__") }
  ELSE { Chars("fn "), Chars("struct "), Chars("impl "), Chars("enum "),
         Chars("trait "), Chars("mod "), Chars("use "), Chars("pub ") }

\* indicator_count
IndicatorCount(engine, content_preview) ==
  Cardinality({ ind \in Indicators(engine) : Contains(content_preview, ind) })

Confidence(can, tenths) == [can |-> can, confidence |-> tenths]

\* PythonAnalyzer.can_analyze with the filename test before the extension test.
PythonCanAnalyzeNameFirst(file_path, content_preview) ==
  IF IsSupportedFilename("python", file_path) THEN Confidence(TRUE, 9)
  ELSE IF PathSuffix(file_path) \in supported_extensions("python")
  THEN Confidence(TRUE, 10)
  ELSE IF HasShebang(content_preview) THEN Confidence(TRUE, 8)
  ELSE IF IndicatorCount("python", content_preview) >= 2 THEN Confidence(TRUE, 7)
  ELSE IF IndicatorCount("python", content_preview) >= 1 THEN Confidence(TRUE, 5)
  ELSE Confidence(FALSE, 0)

\* PythonAnalyzer.can_analyze
PythonCanAnalyze(file_path, content_preview) ==
  IF PathSuffix(file_path) \in supported_extensions("python")
  THEN Confidence(TRUE, 10)
  ELSE IF IsSupportedFilename("python", file_path) THEN Confidence(TRUE, 9)
  ELSE IF HasShebang(content_preview) THEN Confidence(TRUE, 8)
  ELSE IF IndicatorCount("python", content_preview) >= 2 THEN Confidence(TRUE, 7)
  ELSE IF IndicatorCount("python", content_preview) >= 1 THEN Confidence(TRUE, 5)
  ELSE Confidence(FALSE, 0)

\* RustAnalyzer.can_analyze with the upper threshold off by one.
RustCanAnalyzeAboveThree(file_path, content_preview) ==
  IF PathSuffix(file_path) \in supported_extensions("rust")
  THEN Confidence(TRUE, 10)
  ELSE IF IsSupportedFilename("rust", file_path) THEN Confidence(TRUE, 9)
  ELSE IF IndicatorCount("rust", content_preview) > 3 THEN Confidence(TRUE, 8)
  ELSE IF IndicatorCount("rust", content_preview) >= 1 THEN Confidence(TRUE, 6)
  ELSE Confidence(FALSE, 0)

\* RustAnalyzer.can_analyze
RustCanAnalyze(file_path, content_preview) ==
  IF PathSuffix(file_path) \in supported_extensions("rust")
  THEN Confidence(TRUE, 10)
  ELSE IF IsSupportedFilename("rust", file_path) THEN Confidence(TRUE, 9)
  ELSE IF IndicatorCount("rust", content_preview) >= 3 THEN Confidence(TRUE, 8)
  ELSE IF IndicatorCount("rust", content_preview) >= 1 THEN Confidence(TRUE, 6)
  ELSE Confidence(FALSE, 0)

Engines == {"python", "rust"}

\* File paths: names with and without a supported extension, supported filenames
\* in their own and in another case, in a directory, and names that are only a
\* suffix or end in a dot.
CanPaths ==
  { Chars("a.py"), Chars("setup.py"), Chars("Pipfile"), Chars("d/PIPFILE"),
    Chars("Tox.INI"), Chars("a.PY"), Chars(".py"), Chars("a.py/"), Chars("a.rs"),
    Chars("Cargo.toml"), Chars("CARGO.LOCK"), Chars("rust-toolchain"), Chars(".rs"),
    Chars("a.rs.txt"), Chars("a"), <<>> }

\* Previews: an optional first line (a shebang, a shebang behind a space, other
\* text) followed by up to three indicators of either engine.
PreviewHeads ==
  { <<>>, Chars("#!/usr/bin/env python"), Chars("#!/usr/bin/python3"),
    Chars(" #!/usr/bin/python"), Chars("x") }

Previews ==
  { h \o a \o b \o c : h \in PreviewHeads,
                       a \in { <<>>, Chars("def "), Chars("fn ") },
                       b \in { <<>>, Chars("class "), Chars("struct ") },
                       c \in { <<>>, Chars("import "), Chars("impl ") } }

InitCan ==
  /\ RuntimeIdle
  /\ call \in { [op |-> "can_analyze", engine |-> e, file_path |-> f,
                 content_preview |-> p] :
                e \in Engines, f \in CanPaths, p \in Previews }
  /\ ret = NoCall

\* One call of PythonAnalyzer.can_analyze.
CanAnalyzePython ==
  /\ call.op = "can_analyze"
  /\ call.engine = "python"
  /\ ret = NoCall
  /\ ret' = PythonCanAnalyze(call.file_path, call.content_preview)
  /\ UNCHANGED call
  /\ UNCHANGED runtime_vars

\* One call of RustAnalyzer.can_analyze.
CanAnalyzeRust ==
  /\ call.op = "can_analyze"
  /\ call.engine = "rust"
  /\ ret = NoCall
  /\ ret' = RustCanAnalyze(call.file_path, call.content_preview)
  /\ UNCHANGED call
  /\ UNCHANGED runtime_vars

NextCan == CanAnalyzePython \/ CanAnalyzeRust

SpecCan == InitCan /\ [][NextCan]_vars

Answered == call.op = "can_analyze" /\ ret # NoCall

\* C16: the first matching tier decides: a supported extension gives (true, 1.0)
\* whatever the name and the preview are; otherwise a supported filename, in any
\* case, gives (true, 0.9) whatever the preview is; otherwise, for the Python
\* engine, a preview that starts with a shebang gives (true, 0.8).
C16_TiersInOrder ==
  Answered =>
    IF PathSuffix(call.file_path) \in supported_extensions(call.engine)
    THEN ret = Confidence(TRUE, 10)
    ELSE IF IsSupportedFilename(call.engine, call.file_path)
    THEN ret = Confidence(TRUE, 9)
    ELSE (call.engine = "python" /\ HasShebang(call.content_preview))
           => ret = Confidence(TRUE, 8)

\* setup.py, a supported filename with the supported extension, was answered for
\* a preview that has a shebang and indicators.
C16_Witness ==
  /\ Answered
  /\ call.engine = "python"
  /\ call.file_path = Chars("setup.py")
  /\ HasShebang(call.content_preview)
  /\ IndicatorCount("python", call.content_preview) >= 2
  /\ ret.confidence = 10

\* No tier of the path or of the shebang matches the call.
OnlyIndicators ==
  /\ Answered
  /\ PathSuffix(call.file_path) \notin supported_extensions(call.engine)
  /\ ~IsSupportedFilename(call.engine, call.file_path)
  /\ ~(call.engine = "python" /\ HasShebang(call.content_preview))

\* C17 as stated: with no other tier matching, three or more indicators give 0.8
\* (0.6 for the Rust engine), one or two give between 0.5 and 0.6, none gives
\* (false, 0.0), and matches is true exactly when the confidence is above 0.
C17_IndicatorTiersAsStated ==
  OnlyIndicators =>
    LET n == IndicatorCount(call.engine, call.content_preview) IN
    /\ n >= 3 => ret.confidence = (IF call.engine = "rust" THEN 6 ELSE 8)
    /\ (n >= 1 /\ n < 3) => (5 <= ret.confidence /\ ret.confidence <= 6)
    /\ n = 0 => ret = Confidence(FALSE, 0)
    /\ ret.can <=> ret.confidence > 0

\* C17, amended: with no other tier matching, the Python engine answers 0.7 for
\* two or more indicators and 0.5 for one, the Rust engine 0.8 for three or more
\* and 0.6 for one or two, both (false, 0.0) for none, and matches is true
\* exactly when the confidence is above 0.
C17_IndicatorTiers ==
  OnlyIndicators =>
    LET n == IndicatorCount(call.engine, call.content_preview) IN
    /\ call.engine = "python" =>
         ret.confidence = (IF n >= 2 THEN 7 ELSE IF n = 1 THEN 5 ELSE 0)
    /\ call.engine = "rust" =>
         ret.confidence = (IF n >= 3 THEN 8 ELSE IF n >= 1 THEN 6 ELSE 0)
    /\ ret.can <=> ret.confidence > 0

\* Both engines were asked about previews with three of their indicators, and
\* with none: here the Python engine with three.
C17_Witness ==
  /\ OnlyIndicators
  /\ call.engine = "python"
  /\ IndicatorCount("python", call.content_preview) = 3
  /\ ret = Confidence(TRUE, 7)

(***************************************************************************)
(* What both engines use to build a CodeElement.                           *)
(***************************************************************************)
\* the characters \s and str.strip() take for white space
Whitespace == {" ", "\t", "\r", "\n"}

\* the characters of \w
WordChars ==
  LET w == Chars("abcdefghijklmnopqrstuvwxyzABCDEFGHIJKLMNOPQRSTUVWXYZ0123456789_")
  IN { w[i] : i \in 1..Len(w) }

\* the delimiters estimate_code_tokens counts as partial tokens (but for the
\* backquote, which no text of the model holds)
Delimiters ==
  LET d == Chars("(){}[]<>,.;:\"'|\\/-+=*&%$#@!?~") IN { d[i] : i \in 1..Len(d) }

RECURSIVE SkipSpace(_)
\* str.lstrip(), and what is left behind a \s*
SkipSpace(s) == IF s # <<>> /\ s[1] \in Whitespace THEN SkipSpace(Tail(s)) ELSE s

RECURSIVE StripText(_)
\* str.strip()
StripText(s) ==
  IF s # <<>> /\ s[Len(s)] \in Whitespace THEN StripText(SubSeq(s, 1, Len(s) - 1))
  ELSE SkipSpace(s)

\* the longest \w* at the start of s
TakeWord(s) ==
  SubSeq(s, 1, CHOOSE n \in 0..Len(s) :
                 /\ \A i \in 1..n : s[i] \in WordChars
                 /\ n < Len(s) => s[n + 1] \notin WordChars)

RECURSIVE SetToSeq(_)
\* list(a_set): the members in some order, each once
SetToSeq(S) ==
  IF S = {} THEN <<>>
  ELSE LET x == CHOOSE y \in S : TRUE IN <<x>> \o SetToSeq(S \ {x})

\* estimate_code_tokens: the runs of characters that are neither white space nor
\* delimiters, plus half the delimiters; 0 for the empty text
estimate_code_tokens(code) ==
  LET sep(i) == code[i] \in Whitespace \cup Delimiters
      tokens == Cardinality({ i \in 1..Len(code) :
                                ~sep(i) /\ (i = 1 \/ sep(i - 1)) })
      delimiters == Cardinality({ i \in 1..Len(code) : code[i] \in Delimiters })
  IN IF code = <<>> THEN 0 ELSE Max(1, tokens + (delimiters \div 2))

(***************************************************************************)
(* The Rust engine: elements.                                              *)
(***************************************************************************)
\* What can follow s once an optional "word\s+" of a pattern is matched.
Optional(s, word) ==
  {s} \cup (IF StartsWith(s, word) /\ SkipSpace(Drop(s, Len(word))) # Drop(s, Len(word))
            THEN { SkipSpace(Drop(s, Len(word))) } ELSE {})

\* The (\w+) of "kw\s+(\w+)" matched at the start of s, or the empty text.
NameBehind(s, kw) ==
  IF StartsWith(s, kw) /\ SkipSpace(Drop(s, Len(kw))) # Drop(s, Len(kw))
  THEN TakeWord(SkipSpace(Drop(s, Len(kw)))) ELSE <<>>

\* patterns, in the order of the dict: the element type, its keyword, and
\* whether the patterns of the type allow "pub" and "async" before the keyword
patterns ==
  << [element_type |-> "function", kw |-> Chars("fn"), pub |-> TRUE, async |-> TRUE],
     [element_type |-> "struct", kw |-> Chars("struct"), pub |-> TRUE, async |-> FALSE],
     [element_type |-> "enum", kw |-> Chars("enum"), pub |-> TRUE, async |-> FALSE],
     [element_type |-> "trait", kw |-> Chars("trait"), pub |-> TRUE, async |-> FALSE],
     [element_type |-> "impl", kw |-> Chars("impl"), pub |-> FALSE, async |-> FALSE],
     [element_type |-> "module", kw |-> Chars("mod"), pub |-> TRUE, async |-> FALSE],
     [element_type |-> "type", kw |-> Chars("type"), pub |-> TRUE, async |-> FALSE],
     [element_type |-> "constant", kw |-> Chars("const"), pub |-> TRUE, async |-> FALSE] >>

\* The names re.match finds on the line for the patterns of one type: at most one.
\* For impl, "(?:\s*<[^>]*>)?" may stand between the keyword and the name.
MatchNames(line, pat) ==
  LET s == SkipSpace(line)
      generic(r) ==
        IF StartsWith(SkipSpace(r), <<"<">>) /\ Contains(r, <<">">>)
        THEN { pat.kw \o
               Drop(r, CHOOSE k \in 1..Len(r) :
                         r[k] = ">" /\ \A j \in 1..(k - 1) : r[j] # ">") }
        ELSE {}
      starts ==
        IF pat.element_type = "impl"
        THEN {s} \cup (IF StartsWith(s, pat.kw) THEN generic(Drop(s, Len(pat.kw)))
                       ELSE {})
        ELSE { r2 : r2 \in UNION { (IF pat.async THEN Optional(r1, Chars("async"))
                                    ELSE {r1}) :
                                   r1 \in (IF pat.pub THEN Optional(s, Chars("pub"))
                                           ELSE {s}) } }
  IN { NameBehind(r, pat.kw) : r \in starts } \ { <<>> }

RECURSIVE ScanBracesZeroBased(_, _, _, _)
\* the loop of _find_element_end returning the index i for i + 1.
ScanBracesZeroBased(lines, i, brace_count, in_element) ==
  IF i >= Len(lines) THEN -1
  ELSE LET open_braces == Count(lines[i + 1], <<"{">>)
           close_braces == Count(lines[i + 1], <<"}">>)
           count == (IF open_braces > 0 THEN brace_count + open_braces
                     ELSE brace_count) - close_braces
       IN IF (in_element \/ open_braces > 0) /\ count <= 0 THEN i
          ELSE ScanBracesZeroBased(lines, i + 1, count, in_element \/ open_braces > 0)

RECURSIVE ScanBraces(_, _, _, _)
\* the loop of _find_element_end from line index i (0-based) on: the value it
\* returns, or -1 when it ends without returning
ScanBraces(lines, i, brace_count, in_element) ==
  IF i >= Len(lines) THEN -1
  ELSE LET open_braces == Count(lines[i + 1], <<"{">>)
           close_braces == Count(lines[i + 1], <<"}">>)
           count == (IF open_braces > 0 THEN brace_count + open_braces
                     ELSE brace_count) - close_braces
       IN IF (in_element \/ open_braces > 0) /\ count <= 0 THEN i + 1
          ELSE ScanBraces(lines, i + 1, count, in_element \/ open_braces > 0)

\* _find_element_end with the terminator test answering start_line.
FindElementEndSameIndex(lines, start_line, start_line_content) ==
  IF EndsWith(start_line_content, <<";">>) THEN start_line
  ELSE IF ScanBraces(lines, start_line, 0, FALSE) # -1
  THEN ScanBraces(lines, start_line, 0, FALSE)
  ELSE Min(start_line + 20, Len(lines))

\* _find_element_end with the fallback not capped by the length of the file.
FindElementEndUncapped(lines, start_line, start_line_content) ==
  IF EndsWith(start_line_content, <<";">>) THEN start_line + 1
  ELSE IF ScanBraces(lines, start_line, 0, FALSE) # -1
  THEN ScanBraces(lines, start_line, 0, FALSE)
  ELSE start_line + 20

\* _find_element_end: start_line is the 0-based index of the declaration
FindElementEnd(lines, start_line, start_line_content) ==
  IF EndsWith(start_line_content, <<";">>) THEN start_line + 1
  ELSE IF ScanBraces(lines, start_line, 0, FALSE) # -1
  THEN ScanBraces(lines, start_line, 0, FALSE)
  ELSE Min(start_line + 20, Len(lines))

\* The names the three call patterns capture on one line: a word followed by
\* "\s*(" , and a word followed by "::\w+\s*(".
CallNames(line) ==
  LET called(r) == StartsWith(SkipSpace(r), <<"(">>)
      word(i) == TakeWord(Drop(line, i - 1))
      rest(i) == Drop(line, i - 1 + Len(word(i)))
  IN { word(i) : i \in { j \in 1..Len(line) :
         /\ line[j] \in WordChars
         /\ (j = 1 \/ line[j - 1] \notin WordChars)
         /\ \/ called(rest(j))
            \/ /\ StartsWith(rest(j), <<":", ":">>)
               /\ TakeWord(Drop(rest(j), 2)) # <<>>
               /\ called(Drop(rest(j), 2 + Len(TakeWord(Drop(rest(j), 2))))) } }

\* _extract_calls_in_range(lines, start, end)
ExtractCallsInRange(lines, start, end) ==
  LET keywords == { Chars("if"), Chars("else"), Chars("while"), Chars("for"),
                    Chars("match"), Chars("let"), Chars("mut"), Chars("return"),
                    Chars("break"), Chars("continue") }
      calls == UNION { CallNames(lines[n + 1]) :
                       n \in start..(Min(end, Len(lines)) - 1) }
  IN SetToSeq({ c \in calls : c \notin keywords /\ Len(c) > 1 })

\* RustAnalyzer._extract_elements: one element for every line that is neither
\* blank nor a comment and that a pattern matches
RustElements(content, lines) ==
  LET Element(line_num, pat) ==
        LET end_line == FindElementEnd(lines, line_num - 1,
                                       StripText(lines[line_num]))
        IN [element_type |-> pat.element_type,
            name |-> CHOOSE n \in MatchNames(lines[line_num], pat) : TRUE,
            line_start |-> line_num,
            line_end |-> end_line,
            complexity_score |-> calculate_complexity(content, line_num, end_line),
            calls |-> ExtractCallsInRange(lines, line_num - 1, end_line - 1),
            tokens |-> estimate_code_tokens(
                         JoinWith(Slice(lines, line_num - 1, end_line), <<"\n">>))]
      OfLine(line_num) ==
        IF StripText(lines[line_num]) = <<>>
             \/ StartsWith(StripText(lines[line_num]), <<"/", "/">>)
        THEN <<>>
        ELSE LET hit == SelectSeq(patterns,
                                  LAMBDA pat : MatchNames(lines[line_num], pat) # {})
             IN [k \in 1..Len(hit) |-> Element(line_num, hit[k])]
  IN Join([n \in 1..Len(lines) |-> OfLine(n)])

(***************************************************************************)
(* Imports and relationships.  A path is the sequence of its components,   *)
(* and fs is the set of the paths that exist.                              *)
(***************************************************************************)
\* Path(...) / rel for a base given by its components: an absolute rel replaces
\* the base (pathlib)
PathJoin(base, rel) ==
  IF StartsWith(rel, <<"/">>) THEN SplitPath(rel) ELSE base \o SplitPath(rel)

\* potential_paths of _resolve_import_path (and of detect_import_type)
PythonCandidates(module_name, in) ==
  LET module_path == Replace(module_name, ".", "/")
      project_root == SplitPath(in.project_root)
      current_dir == SubSeq(SplitPath(in.file_path), 1, Len(SplitPath(in.file_path)) - 1)
  IN << PathJoin(project_root, module_path \o Chars(".py")),
        PathJoin(project_root, module_path \o Chars("/__init__.py")),
        PathJoin(current_dir, module_path \o Chars(".py")),
        PathJoin(current_dir, module_path \o Chars("/__init__.py")) >>

\* potential_paths of _resolve_rust_module_path
RustCandidates(module_name, in) ==
  LET module_parts == Split(IF StartsWith(module_name, Chars("crate::"))
                            THEN Drop(module_name, 7) ELSE module_name,
                            <<":", ":">>)
      src == SplitPath(in.project_root) \o <<Chars("src")>>
  IN << PathJoin(src, JoinWith(module_parts, <<"/">>) \o Chars(".rs")),
        PathJoin(PathJoin(src, JoinWith(module_parts, <<"/">>)), Chars("mod.rs")),
        PathJoin(src, module_parts[1] \o Chars(".rs")),
        PathJoin(PathJoin(src, module_parts[1]), Chars("mod.rs")) >>

\* The return of _resolve_import_path and of _resolve_rust_module_path for their
\* candidates: the first that exists, relative to the project root when it lies
\* under it and whole when not (ValueError); the empty path stands for None.
ResolvePath(candidates, in, fs) ==
  LET found == SelectSeq(candidates, LAMBDA p : p \in fs)
      project_root == SplitPath(in.project_root)
  IN IF found = <<>> THEN <<>>
     ELSE IF SubSeq(found[1], 1, Len(project_root)) = project_root
     THEN Drop(found[1], Len(project_root))
     ELSE found[1]

Candidates(engine, module_name, in) ==
  IF engine = "python" THEN PythonCandidates(module_name, in)
  ELSE RustCandidates(module_name, in)

\* _extract_relationships with the test of the import type left out.
ExtractRelationshipsOfAnyType(engine, imports, in, fs) ==
  Join([k \in 1..Len(imports) |->
          IF ResolvePath(Candidates(engine, imports[k].module, in), in, fs) # <<>>
          THEN << [from_file |-> in.relative_path,
                   to_file |-> ResolvePath(Candidates(engine, imports[k].module, in),
                                           in, fs),
                   relationship_type |-> "import",
                   details |-> imports[k].module,
                   line_number |-> imports[k].line_number,
                   strength |-> 8] >>
          ELSE <<>>])

\* _extract_relationships of either engine; strength is in tenths, and details
\* is the module behind its "import " or "use "
ExtractRelationships(engine, imports, in, fs) ==
  Join([k \in 1..Len(imports) |->
          IF /\ imports[k].import_type = "local"
             /\ ResolvePath(Candidates(engine, imports[k].module, in), in, fs) # <<>>
          THEN << [from_file |-> in.relative_path,
                   to_file |-> ResolvePath(Candidates(engine, imports[k].module, in),
                                           in, fs),
                   relationship_type |-> "import",
                   details |-> imports[k].module,
                   line_number |-> imports[k].line_number,
                   strength |-> 8] >>
          ELSE <<>>])

\* The inputs of the relationship calls: a file under the project root and one
\* outside it.
RelInputs ==
  { PluginInput(Chars("/p/d/f"), Chars("d/f"), <<>>, Chars("/p"), <<"c">>),
    PluginInput(Chars("/q/f"), Chars("../q/f"), <<>>, Chars("/p"), <<"c">>) }

\* Module names of the imports, per engine.
RelModules(engine) ==
  IF engine = "python" THEN { Chars("m"), Chars("a.b"), <<>> }
  ELSE { Chars("crate::m"), Chars("crate::a::b"), Chars("m"), Chars("std::io") }

ImportTypes == {"standard", "third_party", "local", "relative"}

\* One Import on line n.
ImportsOnLine(engine, n) ==
  { [module |-> m, line_number |-> n, import_type |-> t] :
      m \in RelModules(engine), t \in ImportTypes }

\* No import, one, and two on the same or on successive lines.
ImportLists(engine) ==
  { <<>> } \cup { <<i>> : i \in ImportsOnLine(engine, 1) }
    \cup { <<i, j>> : i \in ImportsOnLine(engine, 1),
                      j \in ImportsOnLine(engine, 1) \cup ImportsOnLine(engine, 2) }

\* The files that exist: none, one candidate, two candidates of one module, a
\* package, and a candidate next to a file outside the project root.
FileSystems(engine) ==
  IF engine = "python"
  THEN { {}, { SplitPath(Chars("/p/m.py")) },
         { SplitPath(Chars("/p/m.py")), SplitPath(Chars("/p/d/m.py")) },
         { SplitPath(Chars("/p/a/b/__init__.py")) },
         { SplitPath(Chars("/q/m.py")) },
         { SplitPath(Chars("/__init__.py")) } }
  ELSE { {}, { SplitPath(Chars("/p/src/m.rs")) },
         { SplitPath(Chars("/p/src/a/b/mod.rs")), SplitPath(Chars("/p/src/a.rs")) },
         { SplitPath(Chars("/p/src/a/mod.rs")) } }

InitRel ==
  /\ RuntimeIdle
  /\ \E e \in Engines :
       call \in { [op |-> "extract_relationships", engine |-> e, imports |-> i,
                   input_data |-> in, fs |-> f] :
                  i \in ImportLists(e), in \in RelInputs, f \in FileSystems(e) }
  /\ ret = NoCall

\* One call of PythonAnalyzer._extract_relationships.
ExtractRelationshipsPython ==
  /\ call.op = "extract_relationships"
  /\ call.engine = "python"
  /\ ret = NoCall
  /\ ret' = [relationships |->
               ExtractRelationships("python", call.imports, call.input_data, call.fs)]
  /\ UNCHANGED call
  /\ UNCHANGED runtime_vars

\* One call of RustAnalyzer._extract_relationships.
ExtractRelationshipsRust ==
  /\ call.op = "extract_relationships"
  /\ call.engine = "rust"
  /\ ret = NoCall
  /\ ret' = [relationships |->
               ExtractRelationships("rust", call.imports, call.input_data, call.fs)]
  /\ UNCHANGED call
  /\ UNCHANGED runtime_vars

NextRel == ExtractRelationshipsPython \/ ExtractRelationshipsRust

SpecRel == InitRel /\ [][NextRel]_vars

\* The import is classified local and one of its candidate files exists.
Resolvable(imp) ==
  /\ imp.import_type = "local"
  /\ \E k \in 1..4 :
       Candidates(call.engine, imp.module, call.input_data)[k] \in call.fs

\* C20: relationship extraction gives exactly one Relationship for each import
\* that is classified local and has an existing candidate file, with strength
\* 0.8, type "import", the input's relative path as from_file and the import's
\* line number, and none for any other import.
C20_OneRelationshipPerLocalImport ==
  (call.op = "extract_relationships" /\ ret # NoCall) =>
    /\ \A n \in 1..2 :
         Cardinality({ k \in 1..Len(ret.relationships) :
                         ret.relationships[k].line_number = n })
           = Cardinality({ k \in 1..Len(call.imports) :
                             /\ call.imports[k].line_number = n
                             /\ Resolvable(call.imports[k]) })
    /\ \A k \in 1..Len(ret.relationships) :
         /\ ret.relationships[k].strength = 8
         /\ ret.relationships[k].relationship_type = "import"
         /\ ret.relationships[k].from_file = call.input_data.relative_path
         /\ ret.relationships[k].line_number \in 1..2

\* Two imports of one line were extracted, one local with an existing file and
\* one local with none, and one relationship came out.
C20_Witness ==
  /\ call.op = "extract_relationships"
  /\ ret # NoCall
  /\ Len(call.imports) = 2
  /\ call.imports[1].line_number = call.imports[2].line_number
  /\ Resolvable(call.imports[1])
  /\ call.imports[2].import_type = "local"
  /\ ~Resolvable(call.imports[2])
  /\ Len(ret.relationships) = 1

(***************************************************************************)
(* The Python engine: ast.parse for the statements of the model's files,   *)
(* and the elements made from its nodes.                                   *)
(***************************************************************************)
\* The lines as ast.parse counts them: "\r\n", "\r" and "\n" each end a line.
UniversalLines(content) ==
  Split(JoinWith(Split(JoinWith(Split(content, <<"\r", "\n">>), <<"\n">>),
                       <<"\r">>), <<"\n">>), <<"\n">>)

\* The one-line statements of the model's files and the node ast.parse builds
\* for each: its class, its name (the target of an assignment) and the names
\* of the ast.Call nodes inside it, in the order of ast.walk.
Statements ==
  << [text |-> Chars("X = 1"), kind |-> "Assign", name |-> Chars("X"), calls |-> <<>>],
     [text |-> Chars("x = 1"), kind |-> "Assign", name |-> Chars("x"), calls |-> <<>>],
     [text |-> Chars("y: int = 2"), kind |-> "AnnAssign", name |-> Chars("y"),
      calls |-> <<>>],
     [text |-> Chars("def f(): g(); g()"), kind |-> "FunctionDef", name |-> Chars("f"),
      calls |-> <<Chars("g"), Chars("g")>>],
     [text |-> Chars(" def m(self): h()"), kind |-> "FunctionDef", name |-> Chars("m"),
      calls |-> <<Chars("h")>>],
     [text |-> Chars("class C:"), kind |-> "ClassDef", name |-> Chars("C"),
      calls |-> <<>>],
     [text |-> Chars(" X = 1"), kind |-> "Assign", name |-> Chars("X"), calls |-> <<>>],
     [text |-> Chars("setup(install_requires=['a', \"b>=1\"])"), kind |-> "Expr",
      name |-> <<>>, calls |-> <<Chars("setup")>>] >>

RECURSIVE ParseBody(_, _, _)
\* ast.parse from line i on, body being the statements before it: the body of
\* the ast.Module, or the SyntaxError.  A class takes the indented lines that
\* follow it (blank lines between them pass) as its body; an indented line
\* elsewhere, a class without a body and a line that is no statement are errors.
ParseBody(lines, i, body) ==
  LET Node(n, end, inner) ==
        LET stmt == SelectSeq(Statements, LAMBDA s : s.text = lines[n])[1]
        IN [kind |-> stmt.kind, name |-> stmt.name, calls |-> stmt.calls,
            lineno |-> n, end_lineno |-> end, body |-> inner]
      known(n) == \E k \in 1..Len(Statements) : Statements[k].text = lines[n]
      blank(n) == StripText(lines[n]) = <<>>
      indented(n) == ~blank(n) /\ lines[n][1] = " "
      ends == { j \in i..Len(lines) :
                  /\ \A n \in (i + 1)..j : blank(n) \/ indented(n)
                  /\ j = i \/ indented(j) }
      last == CHOOSE j \in ends : \A k \in ends : k <= j
      methods == SelectSeq([n \in 1..(last - i) |-> i + n], LAMBDA n : indented(n))
  IN IF i > Len(lines) THEN [error |-> <<>>, body |-> body]
     ELSE IF blank(i) THEN ParseBody(lines, i + 1, body)
     ELSE IF indented(i) THEN [error |-> Chars("unexpected indent")]
     ELSE IF ~known(i) THEN [error |-> Chars("invalid syntax")]
     ELSE IF Node(i, i, <<>>).kind # "ClassDef"
     THEN ParseBody(lines, i + 1, Append(body, Node(i, i, <<>>)))
     ELSE IF last = i THEN [error |-> Chars("expected an indented block")]
     ELSE IF \E k \in 1..Len(methods) : ~known(methods[k])
     THEN [error |-> Chars("invalid syntax")]
     ELSE ParseBody(lines, last + 1,
            Append(body, Node(i, last, [k \in 1..Len(methods) |->
                                          Node(methods[k], methods[k], <<>>)])))

\* ast.parse(input_data.content)
ast_parse(content) == ParseBody(UniversalLines(content), 1, <<>>)

\* str.isupper(): no lower-case letter and at least one upper-case letter
IsUpper(s) ==
  LET lower == Chars("abcdefghijklmnopqrstuvwxyz")
  IN /\ \A i \in 1..Len(s) : \A k \in 1..Len(lower) : s[i] # lower[k]
     /\ \E i \in 1..Len(s) : Lower(<<s[i]>>) # <<s[i]>>

\* PythonAnalyzer._extract_elements(tree, content) for the body of the tree: one
\* element per function, class and variable node in the order of ast.walk, or
\* the IndexError of content.split("\n")[node.lineno - 1].  A class has no
\* complexity_score, a variable neither that nor calls.
PythonElements(body, content) ==
  LET nodes == body \o Join([k \in 1..Len(body) |-> body[k].body])
      lines == Split(content, <<"\n">>)
      tokens(node) ==
        estimate_code_tokens(
          JoinWith(Slice(lines, node.lineno - 1, node.end_lineno), <<"\n">>))
      Element(node) ==
        IF node.kind = "FunctionDef"
        THEN << [element_type |-> "function", name |-> node.name,
                 line_start |-> node.lineno, line_end |-> node.end_lineno,
                 complexity_score |->
                   calculate_complexity(content, node.lineno, node.end_lineno),
                 calls |-> SetToSeq({ node.calls[k] : k \in 1..Len(node.calls) }),
                 tokens |-> tokens(node)] >>
        ELSE IF node.kind = "ClassDef"
        THEN << [element_type |-> "class", name |-> node.name,
                 line_start |-> node.lineno, line_end |-> node.end_lineno,
                 calls |-> LET methods == SelectSeq(node.body,
                                                    LAMBDA item : item.kind = "FunctionDef")
                           IN [k \in 1..Len(methods) |-> methods[k].name],
                 tokens |-> tokens(node)] >>
        ELSE IF /\ node.kind \in {"Assign", "AnnAssign"}
                /\ ~StartsWith(node.name, <<"_">>)
                /\ node.kind = "Assign" => IsUpper(node.name)
        THEN << [element_type |-> "variable", name |-> node.name,
                 line_start |-> node.lineno, line_end |-> node.lineno,
                 calls |-> <<>>,
                 tokens |-> estimate_code_tokens(lines[node.lineno])] >>
        ELSE <<>>
  IN IF \E k \in 1..Len(nodes) :
          nodes[k].kind \in {"Assign", "AnnAssign"} /\ nodes[k].lineno > Len(lines)
     THEN [raised |-> "IndexError"]
     ELSE [raised |-> "none", elements |-> Join([k \in 1..Len(nodes) |-> Element(nodes[k])])]

\* PythonAnalyzer.analyze for a Python source file, as _handle_analyze sees it:
\* the PluginOutput of _analyze_python_code (file_summary <<>> stands for None),
\* or the exception that leaves it.  The files of the model hold no import
\* statement, so imports and relationships are empty.
AnalyzePythonCode(in) ==
  LET tree == ast_parse(in.content)
      made == PythonElements(tree.body, in.content)
      exported(node) == node.kind \in {"FunctionDef", "ClassDef", "Assign"}
                          /\ ~StartsWith(node.name, <<"_">>)
      exports == SelectSeq(tree.body, exported)
  IN IF tree.error # <<>>
     THEN [raised |-> "none", file_path |-> in.file_path, elements |-> <<>>,
           imports |-> <<>>, exports |-> <<>>, relationships |-> <<>>,
           external_dependencies |-> <<>>,
           file_summary |-> Chars("Syntax error in Python file: ") \o tree.error]
     ELSE IF made.raised # "none" THEN [raised |-> made.raised]
     ELSE [raised |-> "none", file_path |-> in.file_path, elements |-> made.elements,
           imports |-> <<>>,
           exports |-> [k \in 1..Len(exports) |-> exports[k].name],
           relationships |-> <<>>, external_dependencies |-> <<>>,
           file_summary |-> <<>>]

\* estimate_tokens(text) without the floor at 1
estimate_tokens_unfloored(text) == Len(text) \div 4

\* estimate_tokens(text): about four characters per token
estimate_tokens(text) ==
  IF text = <<>> THEN 0 ELSE Max(1, Len(text) \div 4)

(***************************************************************************)
(* The Python engine on dependency manifests.  An ExternalDependency has   *)
(* its version as a list: empty for None, the text when it is set.         *)
(***************************************************************************)
\* ExternalDependency(name, version, ecosystem="pip", dependency_type="runtime",
\* source_file)
ExternalDependency(name, version, source_file) ==
  [name |-> name, version |-> version, ecosystem |-> "pip",
   dependency_type |-> "runtime", source_file |-> source_file]

\* The PluginOutput of a manifest: no elements, the dependencies, a summary
\* that counts them, and the coarse token estimate of the content.
ManifestOutput(in, dependencies, summary) ==
  [raised |-> "none", file_path |-> in.file_path, elements |-> <<>>,
   imports |-> <<>>, exports |-> <<>>, relationships |-> <<>>,
   external_dependencies |-> dependencies,
   file_summary |-> Chars(summary) \o Chars(ToString(Len(dependencies)))
                      \o Chars(" dependencies"),
   total_tokens |-> estimate_tokens(in.content)]

\* PythonAnalyzer._analyze_requirements_txt(input_data)
AnalyzeRequirementsTxt(in) ==
  LET lines == Split(in.content, <<"\n">>)
      Named(line) ==
        IF Contains(line, Chars("=="))
        THEN [name |-> StripText(Split(line, Chars("=="))[1]),
              version |-> <<StripText(JoinWith(Tail(Split(line, Chars("=="))),
                                               Chars("==")))>>]
        ELSE IF Contains(line, Chars(">="))
        THEN [name |-> StripText(Split(line, Chars(">="))[1]), version |-> <<>>]
        ELSE IF Contains(line, Chars("<="))
        THEN [name |-> StripText(Split(line, Chars("<="))[1]), version |-> <<>>]
        ELSE [name |-> line, version |-> <<>>]
      Dependency(line) ==
        IF line = <<>> \/ StartsWith(line, <<"#">>) THEN <<>>
        ELSE << ExternalDependency(
                  IF Contains(Named(line).name, <<"[">>)
                  THEN Split(Named(line).name, <<"[">>)[1] ELSE Named(line).name,
                  Named(line).version, in.relative_path) >>
  IN ManifestOutput(in, Join([n \in 1..Len(lines) |-> Dependency(StripText(lines[n]))]),
                    "Python requirements with ")

\* str.strip(chars)
StripChars(s, chars) ==
  LET keep == { i \in 1..Len(s) : s[i] \notin chars }
  IN IF keep = {} THEN <<>>
     ELSE SubSeq(s, CHOOSE i \in keep : \A j \in keep : i <= j,
                    CHOOSE i \in keep : \A j \in keep : j <= i)

\* The loop of _analyze_pyproject_toml from line n on: the dependencies of the
\* lines, in_dependencies being the flag before line n.
RECURSIVE PyprojectDependencies(_, _, _, _)
PyprojectDependencies(lines, n, in_dependencies, in) ==
  LET line == StripText(lines[n])
      name == StripChars(StripText(Split(line, <<"=">>)[1]), {"\"", "'"})
  IN IF n > Len(lines) THEN <<>>
     ELSE IF \/ Contains(line, Chars("[tool.poetry.dependencies]"))
             \/ Contains(line, Chars("[project.dependencies]"))
     THEN PyprojectDependencies(lines, n + 1, TRUE, in)
     ELSE IF StartsWith(line, <<"[">>) /\ in_dependencies
     THEN PyprojectDependencies(lines, n + 1, FALSE, in)
     ELSE (IF /\ in_dependencies /\ Contains(line, <<"=">>)
              /\ ~StartsWith(line, <<"#">>) /\ name # Chars("python")
           THEN << ExternalDependency(name, <<>>, in.relative_path) >> ELSE <<>>)
            \o PyprojectDependencies(lines, n + 1, in_dependencies, in)

\* PythonAnalyzer._analyze_pyproject_toml(input_data)
AnalyzePyprojectToml(in) ==
  ManifestOutput(in, PyprojectDependencies(Split(in.content, <<"\n">>), 1, FALSE, in),
                 "Python project config with ")

RECURSIVE BracketedLists(_, _)
\* re.findall(keyword \s*=\s*\[(.*?)\], content, re.DOTALL): the texts between
\* the brackets, leftmost first and without overlap
BracketedLists(content, keyword) ==
  LET assigned == SkipSpace(Drop(content, Len(keyword)))
      opened == SkipSpace(Drop(assigned, 1))
      inside == Drop(opened, 1)
      group == Split(inside, <<"]">>)[1]
  IN IF Len(content) < Len(keyword) THEN <<>>
     ELSE IF /\ StartsWith(content, keyword)
             /\ StartsWith(assigned, <<"=">>)
             /\ StartsWith(opened, <<"[">>)
             /\ Contains(inside, <<"]">>)
     THEN <<group>> \o BracketedLists(Drop(inside, Len(group) + 1), keyword)
     ELSE BracketedLists(Tail(content), keyword)

RECURSIVE QuotedStrings(_)
\* re.findall(["']([^"']+)["'], match): the texts between two quotes of either
\* kind
QuotedStrings(s) ==
  LET quotes == {"\"", "'"}
      rest == Tail(s)
      n == CHOOSE k \in 0..Len(rest) :
             /\ \A i \in 1..k : rest[i] \notin quotes
             /\ k < Len(rest) => rest[k + 1] \in quotes
  IN IF s = <<>> THEN <<>>
     ELSE IF s[1] \in quotes /\ n > 0 /\ n < Len(rest)
     THEN <<SubSeq(rest, 1, n)>> \o QuotedStrings(Drop(rest, n + 1))
     ELSE QuotedStrings(rest)

\* PythonAnalyzer._extract_setup_dependencies(content)
ExtractSetupDependencies(content) ==
  LET Name(dep) ==
        IF Contains(dep, Chars(">=")) THEN StripText(Split(dep, Chars(">="))[1])
        ELSE IF Contains(dep, Chars("==")) THEN StripText(Split(dep, Chars("=="))[1])
        ELSE StripText(dep)
      OfPattern(keyword) ==
        LET deps == Join([k \in 1..Len(BracketedLists(content, keyword)) |->
                            QuotedStrings(BracketedLists(content, keyword)[k])])
        IN [k \in 1..Len(deps) |->
              ExternalDependency(Name(deps[k]), <<>>, Chars("setup.py"))]
  IN OfPattern(Chars("install_requires")) \o OfPattern(Chars("requires"))

\* PythonAnalyzer._analyze_setup_py(input_data)
AnalyzeSetupPy(in) ==
  LET output == AnalyzePythonCode(in)
      dependencies == ExtractSetupDependencies(in.content)
  IN IF output.raised # "none" THEN output
     ELSE [output EXCEPT
             !.external_dependencies = @ \o dependencies,
             !.file_summary = Chars("Python setup file with ")
                                \o Chars(ToString(Len(dependencies)))
                                \o Chars(" dependencies")]

\* PythonAnalyzer.analyze(input_data)
PythonAnalyze(in) ==
  IF PathSuffix(in.file_path) = Chars(".py") THEN AnalyzePythonCode(in)
  ELSE IF Lower(PathName(in.file_path)) = Chars("requirements.txt")
  THEN AnalyzeRequirementsTxt(in)
  ELSE IF Lower(PathName(in.file_path)) = Chars("setup.py") THEN AnalyzeSetupPy(in)
  ELSE IF Lower(PathName(in.file_path)) = Chars("pyproject.toml")
  THEN AnalyzePyprojectToml(in)
  ELSE AnalyzePythonCode(in)

(***************************************************************************)
(* The engines on whole files.                                             *)
(***************************************************************************)
MaxLines == 3

PadLines == 21

\* The files of at most MaxLines lines over a vocabulary of lines, the lines
\* joined by one line end.
Files(vocabulary, line_ends) ==
  { JoinWith(ls, e) : ls \in UNION { [1..n -> vocabulary] : n \in 0..MaxLines },
                      e \in line_ends }

\* Python files: the statements of the model, a statement that does not parse
\* and the blank line, under each of the three line ends.
PythonFiles ==
  Files({ Statements[k].text : k \in 1..Len(Statements) }
          \cup { Chars("def f(:"), <<>> },
        { <<"\n">>, <<"\r", "\n">>, <<"\r">> })

\* Rust files: declarations with and without terminator, balanced, unbalanced
\* and missing braces, a comment; alone or followed by PadLines blank lines.
RustFiles ==
  LET short == Files({ Chars("fn a();"), Chars("pub fn b() {"), Chars("}"),
                       Chars("struct S;  "), Chars("fn c() }} {"),
                       Chars(" if x { g(1); g(2) }"), Chars("impl<T> S"),
                       Chars("// fn d();") },
                     { <<"\n">> })
  IN short \cup { f \o [n \in 1..PadLines |-> "\n"] : f \in short }

InitEngine ==
  /\ RuntimeIdle
  /\ \/ call \in { [op |-> "analyze", engine |-> "python",
                    input_data |-> PluginInput(Chars("/p/a.py"), Chars("a.py"), c,
                                               Chars("/p"), <<"c">>)] :
                   c \in PythonFiles }
     \/ call \in { [op |-> "extract_elements", engine |-> "rust", content |-> c] :
                   c \in RustFiles }
  /\ ret = NoCall

\* _handle_analyze of the Python engine: analyze, and the status of the
\* response (success behind the cache write, error when analyze raised).
HandleAnalyzePython ==
  /\ call.op = "analyze"
  /\ ret = NoCall
  /\ LET output == PythonAnalyze(call.input_data)
     IN ret' = [result |-> output,
                status |-> IF output.raised = "none" THEN "success" ELSE "error"]
  /\ UNCHANGED call
  /\ UNCHANGED runtime_vars

\* RustAnalyzer._extract_elements(content, lines) as _analyze_rust_code calls it.
ExtractElementsRust ==
  /\ call.op = "extract_elements"
  /\ ret = NoCall
  /\ ret' = [elements |-> RustElements(call.content, Split(call.content, <<"\n">>))]
  /\ UNCHANGED call
  /\ UNCHANGED runtime_vars

NextEngine == HandleAnalyzePython \/ ExtractElementsRust

SpecEngine == InitEngine /\ [][NextEngine]_vars

(***************************************************************************)
(* Properties of the elements.                                             *)
(***************************************************************************)
\* An engine has answered the call.
EngineAnswered == call.op \in {"analyze", "extract_elements"} /\ ret # NoCall

\* The elements of the answer, none when analyze raised.
Elements ==
  IF call.engine = "rust" THEN ret.elements
  ELSE IF ret.result.raised = "none" THEN ret.result.elements
  ELSE <<>>

\* The lines of the Rust file of the call.
RustLines == Split(call.content, <<"\n">>)

\* C11: analyze of the Python engine never raises and the request is answered
\* with status success; when the parser fails, the output has no elements,
\* imports, exports and relationships, and its file_summary carries the
\* parser's message.
C11_AnalyzeNeverRaises ==
  (call.op = "analyze" /\ ret # NoCall) =>
    /\ ret.result.raised = "none"
    /\ ret.status = "success"
    /\ ast_parse(call.input_data.content).error # <<>> =>
         /\ ret.result.elements = <<>>
         /\ ret.result.imports = <<>>
         /\ ret.result.exports = <<>>
         /\ ret.result.relationships = <<>>
         /\ ret.result.file_summary
              = Chars("Syntax error in Python file: ")
                  \o ast_parse(call.input_data.content).error

\* C12: every element of either engine has line_start <= line_end.
C12_LineStartBeforeLineEnd ==
  EngineAnswered =>
    \A k \in 1..Len(Elements) : Elements[k].line_start <= Elements[k].line_end

\* The Rust engine answered with an element that ends on its own line and one
\* that ends on a later line.
C12_Witness ==
  /\ EngineAnswered
  /\ call.engine = "rust"
  /\ \E k \in 1..Len(Elements) : Elements[k].line_end = Elements[k].line_start
  /\ \E k \in 1..Len(Elements) : Elements[k].line_end > Elements[k].line_start

\* C13: the calls of every element of either engine hold no name twice.
C13_CallsWithoutDuplicates ==
  EngineAnswered =>
    \A k \in 1..Len(Elements) :
      \A i, j \in 1..Len(Elements[k].calls) :
        i # j => Elements[k].calls[i] # Elements[k].calls[j]

\* C14: every element of either engine has tokens >= 1 and, when it has a
\* complexity_score, complexity_score >= 1.
C14_TokensAndComplexityAtLeastOne ==
  EngineAnswered =>
    \A k \in 1..Len(Elements) :
      /\ Elements[k].tokens >= 1
      /\ "complexity_score" \in DOMAIN Elements[k] => Elements[k].complexity_score >= 1

\* The element is made from a Rust declaration line whose stripped text ends
\* with the terminator.
Terminated(lines, e) == EndsWith(StripText(lines[e.line_start]), <<";">>)

\* C18 as stated: a Rust declaration line whose stripped text ends with ";"
\* gives an element with line_end = line_start + 1.
C18_TerminatedEndsOnNextLine ==
  (EngineAnswered /\ call.engine = "rust") =>
    LET lines == RustLines IN
    \A k \in 1..Len(Elements) :
      Terminated(lines, Elements[k]) => Elements[k].line_end = Elements[k].line_start + 1

\* C18: a Rust declaration line whose stripped text ends with ";" gives an
\* element with line_end = line_start, the declaration's own line.
C18_TerminatedEndsOnItsLine ==
  (EngineAnswered /\ call.engine = "rust") =>
    LET lines == RustLines IN
    \A k \in 1..Len(Elements) :
      Terminated(lines, Elements[k]) => Elements[k].line_end = Elements[k].line_start

\* A terminated declaration with white space behind the terminator, on the
\* second line of a file of three, gave an element.
C18_Witness ==
  /\ EngineAnswered
  /\ call.engine = "rust"
  /\ Len(RustLines) = 3
  /\ \E k \in 1..Len(Elements) :
       /\ Elements[k].line_start = 2
       /\ Terminated(RustLines, Elements[k])
       /\ ~EndsWith(RustLines[2], <<";">>)

RECURSIVE BraceBalance(_, _, _)
\* The number of "{" minus the number of "}" on the lines a..n.
BraceBalance(lines, a, n) ==
  IF n < a THEN 0
  ELSE BraceBalance(lines, a, n - 1) + Count(lines[n], <<"{">>)
         - Count(lines[n], <<"}">>)

\* The lines at or after line a at whose end a "{" has been seen since a and
\* the balance since a is zero (exact) or is zero or less.
ClosingLines(lines, a, exact) ==
  { n \in a..Len(lines) :
      /\ \E l \in a..n : Contains(lines[l], <<"{">>)
      /\ IF exact THEN BraceBalance(lines, a, n) = 0
         ELSE BraceBalance(lines, a, n) <= 0 }

\* The element of an unterminated declaration ends at the first of the closing
\* lines, or, when there is none, within the cap.
EndsAtFirstOf(lines, e, closing) ==
  IF closing # {}
  THEN e.line_end = CHOOSE n \in closing : \A m \in closing : n <= m
  ELSE /\ e.line_start <= e.line_end
       /\ e.line_end <= e.line_start + 20
       /\ e.line_end <= Len(lines)

\* C19 as stated: the element of an unterminated Rust declaration ends at the
\* first line where the count of "{" minus "}" is zero after a "{" was seen,
\* or, without such a line, within line_start..line_start + 20 and the file.
C19_EndsWhereCountIsZero ==
  (EngineAnswered /\ call.engine = "rust") =>
    LET lines == RustLines IN
    \A k \in 1..Len(Elements) :
      ~Terminated(lines, Elements[k]) =>
        EndsAtFirstOf(lines, Elements[k], ClosingLines(lines, Elements[k].line_start, TRUE))

\* C19: the element of an unterminated Rust declaration ends at the first line
\* at whose end a "{" has been seen and the count of "{" minus "}" over the
\* lines since the declaration is zero or less, or, without such a line, within
\* line_start..line_start + 20 and the file.
C19_EndsWhereCountIsNotPositive ==
  (EngineAnswered /\ call.engine = "rust") =>
    LET lines == RustLines IN
    \A k \in 1..Len(Elements) :
      ~Terminated(lines, Elements[k]) =>
        EndsAtFirstOf(lines, Elements[k], ClosingLines(lines, Elements[k].line_start, FALSE))

\* One element ended on a later line that closes its braces, and one without
\* closing line was capped 19 lines behind its start, before the end of the file.
C19_Witness ==
  /\ EngineAnswered
  /\ call.engine = "rust"
  /\ LET lines == RustLines IN
     /\ \E k \in 1..Len(Elements) :
          /\ ~Terminated(lines, Elements[k])
          /\ Elements[k].line_end > Elements[k].line_start
          /\ Elements[k].line_end \in ClosingLines(lines, Elements[k].line_start, TRUE)
     /\ \E k \in 1..Len(Elements) :
          /\ ~Terminated(lines, Elements[k])
          /\ ClosingLines(lines, Elements[k].line_start, FALSE) = {}
          /\ Elements[k].line_end = Elements[k].line_start + 19
          /\ Elements[k].line_end < Len(lines)

\* The text of the file of the engine call.
Content == IF call.engine = "rust" THEN call.content ELSE call.input_data.content

\* C29: an element with a complexity_score whose line range holds no other
\* function declaration scores 1 plus the number of " kw " and "\tkw "
\* occurrences of the control-flow keywords in its range, in both engines.
C29_ScoreIsOnePlusKeywords ==
  EngineAnswered =>
    \A k \in 1..Len(Elements) :
      (/\ "complexity_score" \in DOMAIN Elements[k]
       /\ \A j \in 1..Len(Elements) :
            (j # k /\ Elements[j].element_type = "function")
              => \/ Elements[j].line_start <= Elements[k].line_start
                 \/ Elements[j].line_start > Elements[k].line_end)
        => Elements[k].complexity_score
             = 1 + KeywordHits(CodeBlock(Content, Elements[k].line_start,
                                         Elements[k].line_end),
                               Len(complexity_keywords))


(***************************************************************************)
(* The token estimators.                                                   *)
(***************************************************************************)
MaxText == 4

\* The texts of the estimator calls: up to MaxText characters of a word
\* character, a blank and a delimiter, and each of them three times over.
EstimatorTexts ==
  LET short == UNION { [1..n -> {"a", " ", "("}] : n \in 0..MaxText }
  IN short \cup { t \o t \o t : t \in short }

InitTokens ==
  /\ RuntimeIdle
  /\ call \in { [op |-> o, text |-> t] :
                o \in {"estimate_tokens", "estimate_code_tokens"},
                t \in EstimatorTexts }
  /\ ret = NoCall

\* One call of estimate_tokens.
EstimateTokens ==
  /\ call.op = "estimate_tokens"
  /\ ret = NoCall
  /\ ret' = [tokens |-> estimate_tokens(call.text)]
  /\ UNCHANGED call
  /\ UNCHANGED runtime_vars

\* One call of estimate_code_tokens.
EstimateCodeTokens ==
  /\ call.op = "estimate_code_tokens"
  /\ ret = NoCall
  /\ ret' = [tokens |-> estimate_code_tokens(call.text)]
  /\ UNCHANGED call
  /\ UNCHANGED runtime_vars

NextTokens == EstimateTokens \/ EstimateCodeTokens

SpecTokens == InitTokens /\ [][NextTokens]_vars

\* C28 as stated: neither estimator ever returns 0, whatever the text.
C28_NeverZero ==
  (call.op \in {"estimate_tokens", "estimate_code_tokens"} /\ ret # NoCall)
    => ret.tokens >= 1

\* C28: for a text that is not empty the coarse estimator returns the larger
\* of 1 and a quarter of the length (rounded down) and the fine estimator
\* returns at least 1; for the empty text both return 0.
C28_FlooredAtOneUnlessEmpty ==
  (call.op \in {"estimate_tokens", "estimate_code_tokens"} /\ ret # NoCall)
    => /\ call.text = <<>> => ret.tokens = 0
       /\ call.text # <<>> => ret.tokens >= 1
       /\ (call.text # <<>> /\ call.op = "estimate_tokens")
            => /\ 4 * ret.tokens <= Max(4, Len(call.text))
               /\ 4 * ret.tokens + 3 >= Len(call.text)

\* a text shorter than four characters got the floor of the coarse estimator
C28_Witness ==
  /\ call.op = "estimate_tokens"
  /\ ret # NoCall
  /\ Len(call.text) \in 1..3
  /\ ret.tokens = 1


\* C30: two analyze inputs of one engine that differ in file path or in
\* content never get the same cache filename (the digest of the model has no
\* collisions on distinct texts).
C30_DistinctInputsDistinctNames ==
  \A p, q \in Procs :
    (/\ cache_filename[p] # <<>> /\ cache_filename[q] # <<>>
     /\ \/ InputOf(p).file_path # InputOf(q).file_path
        \/ InputOf(p).content # InputOf(q).content)
      => cache_filename[p] # cache_filename[q]


(***************************************************************************)
(* The imports of a file, and their classification.                        *)
(***************************************************************************)
\* standard_modules of detect_import_type
standard_modules ==
  { Chars("os"), Chars("sys"), Chars("json"), Chars("time"), Chars("datetime"),
    Chars("pathlib"), Chars("collections"), Chars("itertools"), Chars("functools"),
    Chars("typing"), Chars("dataclasses"), Chars("abc"), Chars("re"), Chars("math"),
    Chars("random"), Chars("urllib"), Chars("http"), Chars("socket"),
    Chars("threading"), Chars("asyncio"), Chars("logging"), Chars("argparse"),
    Chars("configparser"), Chars("csv"), Chars("xml"), Chars("sqlite3"),
    Chars("ast"), Chars("hashlib"), Chars("io"), Chars("unittest"),
    Chars("traceback") }

\* detect_import_type(module_name, project_root, file_path) with the files of fs
detect_import_type(module_name, in, fs) ==
  IF StartsWith(module_name, <<".">>) THEN "relative"
  ELSE IF \E k \in 1..4 : PythonCandidates(module_name, in)[k] \in fs THEN "local"
  ELSE IF Split(module_name, <<".">>)[1] \in standard_modules THEN "standard"
  ELSE "third_party"

\* The ast.Import or ast.ImportFrom node ast.parse builds for an import
\* statement on line n: the names with their asnames (<<>> for None), and for a
\* from-import the module behind the dots (<<>> for None; the dots are counted
\* in level).
ImportNode(line, n) ==
  LET alias(text) ==
        LET parts == Split(StripText(text), Chars(" as "))
        IN [name |-> StripText(parts[1]),
            asname |-> IF Len(parts) > 1 THEN StripText(parts[2]) ELSE <<>>]
      aliases(text) ==
        LET items == Split(text, <<",">>)
        IN [k \in 1..Len(items) |-> alias(items[k])]
      from == Split(SkipSpace(Drop(line, 5)), Chars(" import "))
      level == CHOOSE d \in 0..Len(from[1]) :
                 /\ \A i \in 1..d : from[1][i] = "."
                 /\ d < Len(from[1]) => from[1][d + 1] # "."
  IN IF StartsWith(line, Chars("import "))
     THEN [kind |-> "Import", names |-> aliases(Drop(line, 7)), lineno |-> n]
     ELSE [kind |-> "ImportFrom", module |-> StripText(Drop(from[1], level)),
           level |-> level, names |-> aliases(from[2]), lineno |-> n]

\* PythonAnalyzer._extract_imports(tree, input_data) for a module whose
\* statements are the import statements of the lines
PythonImports(lines, in, fs) ==
  LET OfNode(node) ==
        IF node.kind = "Import"
        THEN [k \in 1..Len(node.names) |->
                [module |-> node.names[k].name, items |-> <<>>,
                 alias |-> node.names[k].asname, line_number |-> node.lineno,
                 import_type |-> detect_import_type(node.names[k].name, in, fs)]]
        ELSE << [module |-> node.module,
                 items |-> [k \in 1..Len(node.names) |-> node.names[k].name],
                 alias |-> <<>>, line_number |-> node.lineno,
                 import_type |-> detect_import_type(node.module, in, fs)] >>
  IN Join([n \in 1..Len(lines) |-> OfNode(ImportNode(lines[n], n))])

\* RustAnalyzer._parse_use_statement(use_statement): the module and the items
parse_use_statement(use_statement) ==
  LET braces == Split(use_statement, <<"{">>)
      head == braces[1]
      stripped == SubSeq(head, 1, CHOOSE n \in 0..Len(head) :
                                    /\ n > 0 => head[n] # ":"
                                    /\ \A i \in (n + 1)..Len(head) : head[i] = ":")
      listed == Split(Split(braces[2], <<"}">>)[1], <<",">>)
      parts == Split(use_statement, <<":", ":">>)
  IN IF ~Contains(use_statement, <<":", ":">>)
     THEN [module |-> use_statement, items |-> <<>>]
     ELSE IF Contains(use_statement, <<"{">>) /\ Contains(use_statement, <<"}">>)
     THEN [module |-> StripText(stripped),
           items |-> SelectSeq([k \in 1..Len(listed) |-> StripText(listed[k])],
                               LAMBDA item : item # <<>>)]
     ELSE IF EndsWith(use_statement, Chars("::*"))
     THEN [module |-> SubSeq(use_statement, 1, Len(use_statement) - 3),
           items |-> <<<<"*">>>>]
     ELSE [module |-> JoinWith(SubSeq(parts, 1, Len(parts) - 1), <<":", ":">>),
           items |-> <<parts[Len(parts)]>>]

\* RustAnalyzer._determine_rust_import_type(module, project_root) with the
\* files of fs
determine_rust_import_type(module, project_root, fs) ==
  LET src == SplitPath(project_root) \o <<Chars("src")>>
      first == Split(module, <<":", ":">>)[1]
  IN IF StartsWith(module, Chars("crate::")) THEN "local"
     ELSE IF StartsWith(module, Chars("super::")) \/ StartsWith(module, Chars("self::"))
     THEN "relative"
     ELSE IF \/ StartsWith(module, Chars("std::"))
             \/ StartsWith(module, Chars("core::"))
             \/ StartsWith(module, Chars("alloc::"))
     THEN "standard"
     ELSE IF \/ PathJoin(src, first \o Chars(".rs")) \in fs
             \/ PathJoin(PathJoin(src, first), Chars("mod.rs")) \in fs
     THEN "local"
     ELSE "third_party"

\* The first group of the use_patterns that match the line, in their order:
\* ^\s*use\s+([^;]+);  and  ^\s*extern\s+crate\s+(\w+)
UseMatches(line) ==
  LET body == SkipSpace(line)
      used == Drop(body, 3)
      semicolon == CHOOSE j \in 1..Len(used) :
                     used[j] = ";" /\ \A i \in 1..(j - 1) : used[i] # ";"
      crate == SkipSpace(Drop(body, 6))
      named == SkipSpace(Drop(crate, 5))
  IN (IF /\ StartsWith(body, Chars("use"))
         /\ Len(used) >= 3 /\ used[1] \in Whitespace
         /\ \E j \in 3..Len(used) : used[j] = ";"
         /\ semicolon >= 3
      THEN <<SubSeq(used, 1, semicolon - 1)>> ELSE <<>>)
     \o
     (IF /\ StartsWith(body, Chars("extern"))
         /\ Len(body) > 6 /\ body[7] \in Whitespace
         /\ StartsWith(crate, Chars("crate"))
         /\ Len(crate) > 5 /\ crate[6] \in Whitespace
         /\ TakeWord(named) # <<>>
      THEN <<TakeWord(named)>> ELSE <<>>)

\* RustAnalyzer._extract_imports(content, lines, input_data)
RustImports(lines, in, fs) ==
  LET OfMatch(group, n) ==
        LET parsed == parse_use_statement(StripText(group))
        IN [module |-> parsed.module, items |-> parsed.items, alias |-> <<>>,
            line_number |-> n,
            import_type |-> determine_rust_import_type(parsed.module,
                                                       in.project_root, fs)]
  IN Join([n \in 1..Len(lines) |->
             [k \in 1..Len(UseMatches(lines[n])) |->
                OfMatch(UseMatches(lines[n])[k], n)]])

MaxImports == 2

\* The import statements of the model's files, per engine.
ImportStatements(engine) ==
  IF engine = "python"
  THEN { Chars("from .mod import x"), Chars("from ..pkg import y"),
         Chars("from . import z"), Chars("from os import path"),
         Chars("import os, m"), Chars("from m.n import x as w, v"),
         Chars("import json.tool as t") }
  ELSE { Chars("use crate::a::B;"), Chars("use crate::a;"),
         Chars("use super::x::*;"), Chars("use self::{a, b};"),
         Chars("use std::io::{Read, Write};"), Chars("use std::fmt;"),
         Chars("use m::n::f;"), Chars("use serde;"), Chars("extern crate regex;"),
         Chars("  use  core::mem ;"), Chars("use alloc::vec::*;"),
         Chars("pub use m::x;") }

\* The files that exist beside the importing file /p/d/a.
ImportFileSystems(engine) ==
  IF engine = "python"
  THEN { {}, { SplitPath(Chars("/p/mod.py")) },
         { SplitPath(Chars("/p/d/os.py")), SplitPath(Chars("/p/m/n/__init__.py")) },
         { SplitPath(Chars("/__init__.py")) } }
  ELSE { {}, { SplitPath(Chars("/p/src/m.rs")) },
         { SplitPath(Chars("/p/src/serde/mod.rs")),
           SplitPath(Chars("/p/src/crate.rs")) } }

InitImports ==
  /\ RuntimeIdle
  /\ \E e \in Engines :
       call \in { [op |-> "extract_imports", engine |-> e,
                   input_data |-> PluginInput(Chars("/p/d/a"), Chars("d/a"),
                                              JoinWith(ls, <<"\n">>), Chars("/p"),
                                              <<"c">>),
                   fs |-> f] :
                  ls \in UNION { [1..n -> ImportStatements(e)] : n \in 0..MaxImports },
                  f \in ImportFileSystems(e) }
  /\ ret = NoCall

\* PythonAnalyzer._extract_imports on the tree of the file.
ExtractImportsPython ==
  /\ call.op = "extract_imports"
  /\ call.engine = "python"
  /\ ret = NoCall
  /\ ret' = [imports |-> PythonImports(
                           IF call.input_data.content = <<>> THEN <<>>
                           ELSE Split(call.input_data.content, <<"\n">>),
                           call.input_data, call.fs)]
  /\ UNCHANGED call
  /\ UNCHANGED runtime_vars

\* RustAnalyzer._extract_imports on the lines of the file.
ExtractImportsRust ==
  /\ call.op = "extract_imports"
  /\ call.engine = "rust"
  /\ ret = NoCall
  /\ ret' = [imports |-> RustImports(Split(call.input_data.content, <<"\n">>),
                                     call.input_data, call.fs)]
  /\ UNCHANGED call
  /\ UNCHANGED runtime_vars

NextImports == ExtractImportsPython \/ ExtractImportsRust

SpecImports == InitImports /\ [][NextImports]_vars

\* The imports were extracted and these are the lines of the file.
ImportsOf(engine) == call.op = "extract_imports" /\ call.engine = engine /\ ret # NoCall

ImportLines == Split(call.input_data.content, <<"\n">>)

\* C21: every Python from-import written with leading dots gives an Import
\* whose import_type is "relative", whatever files the project has.
C21_DottedFromImportIsRelative ==
  ImportsOf("python") =>
    \A k \in 1..Len(ret.imports) :
      StartsWith(ImportLines[ret.imports[k].line_number], Chars("from ."))
        => ret.imports[k].import_type = "relative"

\* The path of the use statement on the line: the text between use and ";".
UsePath(line) ==
  StripText(Split(Drop(SkipSpace(line), 3), <<";">>)[1])

\* C22: the Import of a use statement is local when the path starts with
\* crate::, relative when it starts with super:: or self::, standard when it
\* starts with std::, core:: or alloc::, whatever its segments and shape; any
\* other path is local when src/<first segment>.rs or src/<first segment>/mod.rs
\* exists under the project root, and third_party otherwise.
C22_UsePathPrefixDecidesType ==
  ImportsOf("rust") =>
    \A k \in 1..Len(ret.imports) :
      LET line == ImportLines[ret.imports[k].line_number]
          path == UsePath(line)
          first == Split(path, <<":", ":">>)[1]
          src == SplitPath(call.input_data.project_root) \o <<Chars("src")>>
      IN StartsWith(SkipSpace(line), Chars("use")) =>
           ret.imports[k].import_type =
             IF StartsWith(path, Chars("crate::")) THEN "local"
             ELSE IF StartsWith(path, Chars("super::")) \/ StartsWith(path, Chars("self::"))
             THEN "relative"
             ELSE IF \/ StartsWith(path, Chars("std::"))
                     \/ StartsWith(path, Chars("core::"))
                     \/ StartsWith(path, Chars("alloc::"))
             THEN "standard"
             ELSE IF \/ (src \o <<first \o Chars(".rs")>>) \in call.fs
                     \/ (src \o <<first, Chars("mod.rs")>>) \in call.fs
             THEN "local"
             ELSE "third_party"


(***************************************************************************)
(* The Python engine on the manifests of a project.                        *)
(***************************************************************************)
\* The manifests: requirements.txt, pyproject.toml and setup.py under /p, each
\* with the files of at most MaxLines lines over its vocabulary of lines.
Manifests ==
  LET named(name, vocabulary) ==
        { PluginInput(Chars("/p/") \o Chars(name), Chars(name), c, Chars("/p"), <<"c">>) :
            c \in Files(vocabulary, { <<"\n">> }) }
  IN named("requirements.txt",
           { Chars("a==1.0"), Chars("b>=2"), Chars("c[x]<=3"), Chars("d~=1.5"),
             Chars("# e"), <<>>, Chars(" f[y] == 2 "), Chars("g>1") })
     \cup
     named("pyproject.toml",
           { Chars("[tool.poetry.dependencies]"), Chars("[project.dependencies]"),
             Chars("[tool.poetry.group.dev.dependencies]"), Chars("a = 1"),
             Chars("python = 3"), Chars("# [project.dependencies]"),
             Chars("# b = 2"), Chars("\"c\" = \"3\"") })
     \cup
     named("setup.py",
           { Chars("setup(install_requires=['a', \"b>=1\"])"), Chars("X = 1"), <<>> })

InitManifest ==
  /\ RuntimeIdle
  /\ call \in { [op |-> "analyze", engine |-> "python", input_data |-> in] :
                in \in Manifests }
  /\ ret = NoCall

NextManifest == HandleAnalyzePython

SpecManifest == InitManifest /\ [][NextManifest]_vars

\* analyze has answered for the manifest of this name.
ManifestAnalyzed(name) ==
  /\ call.op = "analyze"
  /\ PathName(call.input_data.file_path) = Chars(name)
  /\ ret # NoCall
  /\ ret.result.raised = "none"

\* The lines of the manifest, stripped.
ManifestLines ==
  LET lines == Split(call.input_data.content, <<"\n">>)
  IN [n \in 1..Len(lines) |-> StripText(lines[n])]

\* C23: requirements.txt gives exactly one dependency for each line that is
\* not blank and does not start with '#', in the order of the lines; its
\* version is set exactly when the line holds "==", and is then the text behind
\* it; its name holds no bracket, no version operator and no version text.
C23_OneDependencyPerRequirement ==
  ManifestAnalyzed("requirements.txt") =>
    LET required == SelectSeq(ManifestLines,
                              LAMBDA l : l # <<>> /\ ~StartsWith(l, <<"#">>))
        deps == ret.result.external_dependencies
    IN /\ Len(deps) = Len(required)
       /\ \A k \in 1..Len(deps) :
            /\ deps[k].version # <<>> <=> Contains(required[k], Chars("=="))
            /\ deps[k].version # <<>> =>
                 EndsWith(required[k], Chars("==") \o deps[k].version[1])
            /\ StartsWith(required[k], deps[k].name)
            /\ \A i \in 1..Len(deps[k].name) :
                 deps[k].name[i] \notin {"[", "]", "=", "<", ">", "~", "!", ".",
                                         "0", "1", "2", "3", "4", "5", "6", "7",
                                         "8", "9"}

\* The line is the header of a section of dependencies.
IsDependenciesHeader(line) ==
  \/ StartsWith(line, Chars("[tool.poetry.dependencies]"))
  \/ StartsWith(line, Chars("[project.dependencies]"))

\* Line n lies behind a header of a section of dependencies with no line that
\* starts with '[' between the two.
InDependenciesSection(lines, n) ==
  \E h \in 1..(n - 1) :
    /\ IsDependenciesHeader(lines[h])
    /\ \A m \in (h + 1)..(n - 1) : ~StartsWith(lines[m], <<"[">>)

\* Line n is a 'key = value' line of a section of dependencies, its key not
\* python.
Qualifies(lines, n) ==
  /\ InDependenciesSection(lines, n)
  /\ Contains(lines[n], <<"=">>)
  /\ ~StartsWith(lines[n], <<"#">>)
  /\ ~StartsWith(lines[n], <<"[">>)
  /\ StripText(Split(lines[n], <<"=">>)[1]) # Chars("python")

\* C24: pyproject.toml gives exactly one dependency for each 'key = value'
\* line that lies behind a [tool.poetry.dependencies] or [project.dependencies]
\* header and before the next line starting with '[', but for comment lines
\* and the key python, and none for any other line.
C24_DependenciesOfTheSectionOnly ==
  ManifestAnalyzed("pyproject.toml") =>
    LET lines == ManifestLines
        qualifying == SelectSeq([n \in 1..Len(lines) |-> n],
                                LAMBDA n : Qualifies(lines, n))
        deps == ret.result.external_dependencies
    IN /\ Len(deps) = Len(qualifying)
       /\ \A k \in 1..Len(deps) :
            deps[k].name = StripChars(StripText(Split(lines[qualifying[k]], <<"=">>)[1]),
                                      {"\"", "'"})

\* C25: analyze on a file named setup.py returns the code analysis of the
\* file and one pip dependency for each quoted string of its install_requires
\* lists (each such list of the model's files holds two).
C25_SetupPyHasDependencies ==
  ManifestAnalyzed("setup.py") =>
    /\ Len(ret.result.external_dependencies)
         = 2 * Count(call.input_data.content, Chars("install_requires"))
    /\ \A k \in 1..Len(ret.result.external_dependencies) :
         ret.result.external_dependencies[k].ecosystem = "pip"
    /\ ret.result.elements
         = AnalyzePythonCode(call.input_data).elements


\* C27: the Python engine makes variable elements for module-level statements
\* only: every variable element stands on a line that is not indented, and is
\* an assignment to an upper-case name or an annotated assignment, the name
\* without leading underscore.
C27_VariablesAreModuleLevel ==
  (EngineAnswered /\ call.engine = "python") =>
    \A k \in 1..Len(Elements) :
      Elements[k].element_type = "variable" =>
        LET line == UniversalLines(Content)[Elements[k].line_start]
        IN /\ line[1] \notin Whitespace
           /\ ~StartsWith(Elements[k].name, <<"_">>)
           /\ \/ StartsWith(line, Elements[k].name \o Chars(": "))
              \/ StartsWith(line, Elements[k].name \o Chars(" = "))
                   /\ IsUpper(Elements[k].name)


(***************************************************************************)
(* The documentation of a Rust element.                                    *)
(***************************************************************************)
RECURSIVE DocLinesUntilComment(_, _)
\* The scan of _extract_element_documentation with a plain comment ending it.
DocLinesUntilComment(lines, i) ==
  LET line == StripText(lines[i])
      content == StripText(Slice(line, 3, 0 - 2))
  IN IF i < 1 THEN <<>>
     ELSE IF StartsWith(line, Chars("///")) \/ StartsWith(line, Chars("//!"))
     THEN DocLinesUntilComment(lines, i - 1) \o <<StripText(Drop(line, 3))>>
     ELSE IF StartsWith(line, Chars("/**")) /\ EndsWith(line, Chars("*/"))
     THEN DocLinesUntilComment(lines, i - 1)
            \o (IF content # <<>> THEN <<content>> ELSE <<>>)
     ELSE IF StartsWith(line, Chars("#[")) \/ line = <<>>
     THEN DocLinesUntilComment(lines, i - 1)
     ELSE <<>>

RECURSIVE DocLines(_, _)
\* doc_lines of _extract_element_documentation once the scan, going up, is at
\* line i (counted from 1): the lines collected from there on, topmost first
DocLines(lines, i) ==
  LET line == StripText(lines[i])
      content == StripText(Slice(line, 3, 0 - 2))
  IN IF i < 1 THEN <<>>
     ELSE IF StartsWith(line, Chars("///")) \/ StartsWith(line, Chars("//!"))
     THEN DocLines(lines, i - 1) \o <<StripText(Drop(line, 3))>>
     ELSE IF StartsWith(line, Chars("/**")) /\ EndsWith(line, Chars("*/"))
     THEN DocLines(lines, i - 1) \o (IF content # <<>> THEN <<content>> ELSE <<>>)
     ELSE IF StartsWith(line, Chars("#[")) THEN DocLines(lines, i - 1)
     ELSE IF line = <<>> \/ StartsWith(line, Chars("//")) THEN DocLines(lines, i - 1)
     ELSE <<>>

\* RustAnalyzer._extract_element_documentation(lines, element_line), the
\* element on the line of index element_line (counted from 0): the summary as a
\* list, empty for None
ExtractElementDocumentation(lines, element_line) ==
  IF DocLines(lines, element_line) = <<>> THEN <<>>
  ELSE << JoinWith(DocLines(lines, element_line), <<"\n">>) >>

\* The lines above a declaration: doc comments of the three kinds, an
\* attribute, a blank line, a plain comment and a statement.
LinesAbove ==
  UNION { [1..n -> { Chars("/// a"), Chars("//! b"), Chars("#[x]"), <<>>,
                     Chars("// c"), Chars("let y;"), Chars("/** d */"),
                     Chars("  ///  e  ") }] : n \in 0..MaxLines }

InitDoc ==
  /\ RuntimeIdle
  /\ call \in { [op |-> "extract_element_documentation",
                 lines |-> above \o <<Chars("fn f() {}")>>,
                 element_line |-> Len(above)] : above \in LinesAbove }
  /\ ret = NoCall

\* One call of _extract_element_documentation, as _extract_elements makes it
\* for the declaration it found.
ExtractDocumentation ==
  /\ call.op = "extract_element_documentation"
  /\ ret = NoCall
  /\ ret' = [summary |-> ExtractElementDocumentation(call.lines, call.element_line)]
  /\ UNCHANGED call
  /\ UNCHANGED runtime_vars

NextDoc == ExtractDocumentation

SpecDoc == InitDoc /\ [][NextDoc]_vars

\* The line is a doc comment: "///", "//!", or a block doc comment on one line.
IsDocLine(line) ==
  \/ StartsWith(line, Chars("///"))
  \/ StartsWith(line, Chars("//!"))
  \/ StartsWith(line, Chars("/**")) /\ EndsWith(line, Chars("*/"))

\* The summary of the declaration of the call when the scan passes over the
\* lines of passed and stops at the first line above the declaration that is
\* neither a doc comment nor passed: the doc comments below that line, without
\* their marks, top to bottom.
SummaryWhenPassing(passed(_)) ==
  LET lines == [n \in 1..call.element_line |-> StripText(call.lines[n])]
      stops == { n \in 1..Len(lines) : ~IsDocLine(lines[n]) /\ ~passed(lines[n]) }
      from == IF stops = {} THEN 1
              ELSE 1 + CHOOSE n \in stops : \A m \in stops : m <= n
      docs == SelectSeq(SubSeq(lines, from, Len(lines)), IsDocLine)
      text(line) == IF StartsWith(line, Chars("/**"))
                    THEN StripText(SubSeq(line, 4, Len(line) - 2))
                    ELSE StripText(Drop(line, 3))
      collected == SelectSeq([k \in 1..Len(docs) |-> [doc |-> docs[k], text |-> text(docs[k])]],
                             LAMBDA d : StartsWith(d.doc, Chars("/**")) => d.text # <<>>)
  IN IF collected = <<>> THEN <<>>
     ELSE << JoinWith([k \in 1..Len(collected) |-> collected[k].text], <<"\n">>) >>

\* C26 as stated: the scan passes over attribute lines and blank lines only, so
\* a plain "//" comment ends it as a code line does.
C26_PlainCommentEndsScan ==
  (call.op = "extract_element_documentation" /\ ret # NoCall) =>
    ret.summary = SummaryWhenPassing(LAMBDA l : l = <<>> \/ StartsWith(l, Chars("#[")))

\* C26: the scan collects the doc comments ("///", "//!", a block doc comment
\* on one line) above the declaration, passes over attribute lines, blank
\* lines and plain "//" comments, and stops at the first other line; the
\* collected lines make the summary in their top-to-bottom order, and there is
\* no summary when none was collected.
C26_PlainCommentIsPassedOver ==
  (call.op = "extract_element_documentation" /\ ret # NoCall) =>
    ret.summary = SummaryWhenPassing(LAMBDA l : \/ l = <<>>
                                                \/ StartsWith(l, Chars("#["))
                                                \/ StartsWith(l, Chars("//")))

\* A doc comment above a plain comment above a doc comment: both were collected.
C26_Witness ==
  /\ call.op = "extract_element_documentation"
  /\ ret # NoCall
  /\ call.lines = << Chars("/// a"), Chars("// c"), Chars("//! b"), Chars("fn f() {}") >>
  /\ ret.summary = << Chars("a\nb") >>

====
